---- MODULE Spec2Model ----
(***************************************************************************)
(* llama-swap: the GPU / host-RAM scheduler (proxy/scheduler.go), the      *)
(* process life cycle it drives and the process groups around it.          *)
(*                                                                         *)
(* Memory is counted in abstract MB units.  The scheduler's functions are  *)
(* operators over snapshots of the processes (records), so that the same   *)
(* operators are checked on the reachable states of the running system     *)
(* (Spec) and on enumerated inputs (SpecEvict).                            *)
(***************************************************************************)
EXTENDS Integers, Sequences, FiniteSets, TLC

VARIABLES
    cfg,                 \* configuration, fixed after construction
    footprints,          \* MemoryTracker.footprints, by process (one signature each)
    state,               \* Process.state
    assignedGPU,         \* Process.assignedGPU
    runtimeEnv,          \* Process.runtimeEnv: the indices of CUDA_VISIBLE_DEVICES, <<>> = nil
    inFlight,            \* Process.inFlightRequestsCount
    calls,               \* ProxyRequest calls entered and not yet returned
    lastRequestHandled,  \* Process.lastRequestHandled as a rank, 0 = zero time
    pc,                  \* position of the process's start() call
    mu,                  \* Scheduler.mu: its holder, or NoProc
    sched,               \* the decision of the call holding Scheduler.mu
    ret,                 \* the ScheduleProcess call that returned in the last step
    evIn,                \* SpecEvict: the arguments of selectEvictions
    evOut,               \* SpecEvict: its result
    decIn,               \* SpecDecide: candidate, provider() list and inventory
    decOut,              \* SpecDecide: the decision of ScheduleProcess
    tracked,             \* SpecObserve: MemoryTracker.footprints, by signature
    obs,                 \* SpecObserve: the ObserveLog calls, by caller
    mgIn,                \* SpecMerge: three footprints
    mgOut,               \* SpecMerge: their merges
    life,                \* SpecStart, SpecStop: one Process and its child
    startCalls,          \* SpecStart: the callers of start()
    swap,                \* SpecSwap: the swap mutexes, the active groups, the calls
    locks,               \* SpecLocks: the mutexes, their holders and the threads
    hub                  \* SpecHub: the WebSocket hub, its channels and its clients

procVars == <<state, assignedGPU, runtimeEnv, inFlight, calls, lastRequestHandled, pc>>
schedVars == <<mu, sched, ret>>
lifeVars == <<life, startCalls, swap, locks, hub>>
trVars == <<tracked, obs, mgIn, mgOut, lifeVars>>
evVars == <<evIn, evOut, decIn, decOut, trVars>>
vars == <<cfg, footprints, procVars, schedVars, evVars>>

-----------------------------------------------------------------------------
(* Bounds *)

MaxInFlight == 1      \* concurrent ProxyRequest calls per process
MaxMB == 2            \* largest footprint of a process, in MB units
MaxRank == 2          \* largest rank of a lastRequestHandled time stamp

NoGPU == -1

\* The processes of the configuration, in provider() order.
ProcSeq == cfg.procs
Procs == {ProcSeq[i] : i \in 1..Len(ProcSeq)}
NoProc == "none"
GPUs == {0, 1}
GPUSeq == <<0, 1>>

StateStopped == "stopped"
StateStarting == "starting"
StateReady == "ready"
StateStopping == "stopping"
StateShutdown == "shutdown"
States == {StateStopped, StateStarting, StateReady, StateStopping, StateShutdown}

ErrNone == "OK"
ErrInsufficientVRAM == "InsufficientVRAM"
ErrInsufficientHostRAM == "InsufficientHostRAM"

-----------------------------------------------------------------------------
(* Generic helpers *)

\* sort.Slice on a short slice is an insertion sort: each element moves left
\* past the elements it is Less than.
Insert(sorted, x, Less(_, _)) ==
    LET n == Len(sorted)
        k == CHOOSE k \in 0..n :
                 /\ \A j \in (n - k + 1)..n : Less(x, sorted[j])
                 /\ (k = n \/ ~Less(x, sorted[n - k]))
    IN  SubSeq(sorted, 1, n - k) \o <<x>> \o SubSeq(sorted, n - k + 1, n)

SortSlice(s, Less(_, _)) ==
    LET f[n \in 0..Len(s)] == IF n = 0 THEN <<>> ELSE Insert(f[n - 1], s[n], Less)
    IN  f[Len(s)]

SumSeq(s, F(_)) ==
    LET f[n \in 0..Len(s)] == IF n = 0 THEN 0 ELSE f[n - 1] + F(s[n])
    IN  f[Len(s)]

Min(a, b) == IF a < b THEN a ELSE b

-----------------------------------------------------------------------------
(* Configuration: the model config of each process and the scheduler's    *)
(* options.  The tracker's footprint of a process is held fixed in Spec.   *)

PolicyEvict == "evict_to_fit"
PolicySpill == "spill"
PolicyCpuMoe == "cpu_moe"
PolicyDefault == "default"

FitPolicy(p) == cfg.policy[p]
GroupExclusive(p) == cfg.excl[p]
\* Process.RuntimeFootprint: the tracker's entry of the process's signature.
RuntimeFootprint(p) == footprints[p]

\* Variant: the hint is reported as long as the tracker's VRAM figure is 0.
MeasuredVramMB_HintWhileZero(p) ==
    IF footprints[p].ok /\ footprints[p].fp.VramMB > 0
    THEN footprints[p].fp.VramMB ELSE cfg.vram[p]

\* The tracker's figure once the signature has an entry, the configured
\* initialVramMB / initialCpuMB before.
MeasuredVramMB(p) ==
    IF footprints[p].ok THEN footprints[p].fp.VramMB ELSE cfg.vram[p]
MeasuredCpuMB(p) ==
    IF footprints[p].ok THEN footprints[p].fp.CpuMB ELSE cfg.cpu[p]

\* What the scheduler reads of a process: one element of provider()'s list.
Snap(p) ==
    [id |-> p, state |-> state[p], gpu |-> assignedGPU[p],
     vram |-> MeasuredVramMB(p), cpu |-> MeasuredCpuMB(p),
     inflight |-> inFlight[p], last |-> lastRequestHandled[p],
     excl |-> GroupExclusive(p), policy |-> FitPolicy(p)]

\* provider(): every process of the system, in a fixed order.
Provider == [i \in 1..Len(ProcSeq) |-> Snap(ProcSeq[i])]

-----------------------------------------------------------------------------
(* proxy/scheduler.go *)

processUsesSchedulerCapacity(r) == r.state \in {StateReady, StateStarting}

processesOnGPU(processes, gpuIndex) ==
    SelectSeq(processes, LAMBDA r : r.gpu = gpuIndex /\ processUsesSchedulerCapacity(r))

hasExclusiveProcess(processes) == \E i \in 1..Len(processes) : processes[i].excl

\* Variant: the in-flight filter is missing.
idleProcesses_NoFilter(processes) == processes

idleProcesses(processes) == SelectSeq(processes, LAMBDA r : r.inflight = 0)

\* [evict, ok]
evictAllIdle(processes) ==
    IF \E i \in 1..Len(processes) : processes[i].inflight # 0
    THEN [evict |-> <<>>, ok |-> FALSE]
    ELSE [evict |-> processes, ok |-> TRUE]

sumVram(processes) == SumSeq(processes, LAMBDA r : r.vram)

\* Variant: occupants without a footprint are not looked for.
hasUnknownFootprint_Never(processes) == FALSE

hasUnknownFootprint(processes) == \E i \in 1..Len(processes) : processes[i].vram = 0

\* Variant: most recently used first.
LastBefore_MRU(x, y) == x.last > y.last

LastBefore(x, y) == x.last < y.last

\* Variant: the plan is returned when the idle occupants run out.
RECURSIVE EvictLoop_NoFinalReject(_, _, _, _)
EvictLoop_NoFinalReject(evictable, evict, currentFree, requiredMB) ==
    IF evictable = <<>> THEN [evict |-> evict, ok |-> TRUE]
    ELSE EvictLoop_NoFinalReject(Tail(evictable), Append(evict, Head(evictable)),
                                 currentFree + Head(evictable).vram, requiredMB)

\* The greedy loop of selectEvictions over the sorted idle occupants.
RECURSIVE EvictLoop(_, _, _, _)
EvictLoop(evictable, evict, currentFree, requiredMB) ==
    IF evictable = <<>> THEN [evict |-> <<>>, ok |-> FALSE]
    ELSE LET candidate == Head(evictable)
             evict2 == Append(evict, candidate)
             free2 == currentFree + candidate.vram
         IN  IF free2 >= requiredMB
             THEN [evict |-> evict2, ok |-> TRUE]
             ELSE EvictLoop(Tail(evictable), evict2, free2, requiredMB)

selectEvictions(process, assigned, freeMB, requiredMB) ==
    IF hasUnknownFootprint(assigned) THEN [evict |-> <<>>, ok |-> FALSE]
    ELSE IF process.excl \/ hasExclusiveProcess(assigned)
    THEN LET all == evictAllIdle(assigned)
         IN  IF ~all.ok THEN [evict |-> <<>>, ok |-> FALSE]
             ELSE IF freeMB + sumVram(all.evict) < requiredMB
                  THEN [evict |-> <<>>, ok |-> FALSE]
                  ELSE [evict |-> all.evict, ok |-> TRUE]
    ELSE IF freeMB >= requiredMB THEN [evict |-> <<>>, ok |-> TRUE]
    ELSE EvictLoop(SortSlice(idleProcesses(assigned), LastBefore), <<>>, freeMB, requiredMB)

\* Variant: the per-GPU caps are ignored.
vramCapForGPU_GlobalOnly(index) == cfg.gpuVramCapMB

vramCapForGPU(index) ==
    IF index >= 0 /\ index < Len(cfg.gpuVramCapsMB) /\ cfg.gpuVramCapsMB[index + 1] > 0
    THEN cfg.gpuVramCapsMB[index + 1]
    ELSE cfg.gpuVramCapMB

capGPU(gpu) ==
    LET capMB == vramCapForGPU(gpu.Index)
        total == IF capMB > 0 /\ gpu.TotalMB > capMB THEN capMB ELSE gpu.TotalMB
        free1 == IF capMB > 0 /\ gpu.FreeMB > capMB THEN capMB ELSE gpu.FreeMB
        free2 == IF capMB > 0 /\ free1 > total THEN total ELSE free1
    IN  [Index |-> gpu.Index, FreeMB |-> free2, TotalMB |-> total]

applyVramCaps(gpus) ==
    IF cfg.gpuVramCapMB = 0 /\ Len(cfg.gpuVramCapsMB) = 0 THEN gpus
    ELSE [i \in 1..Len(gpus) |-> capGPU(gpus[i])]

\* Variant: spill processes are accounted like the others.
shouldAccountHostRam_Always(r) == TRUE

shouldAccountHostRam(r) == r.policy # PolicySpill

\* Variant: a process with no CPU footprint counts as 0 MB.
RECURSIVE sumCpuMB_UnknownAsZero(_)
sumCpuMB_UnknownAsZero(processes) ==
    IF processes = <<>> THEN [total |-> 0, ok |-> TRUE]
    ELSE LET r == Head(processes)
             rest == sumCpuMB_UnknownAsZero(Tail(processes))
         IN  IF ~shouldAccountHostRam(r) THEN rest
             ELSE [total |-> r.cpu + rest.total, ok |-> TRUE]

\* [total, ok]
RECURSIVE sumCpuMB(_)
sumCpuMB(processes) ==
    IF processes = <<>> THEN [total |-> 0, ok |-> TRUE]
    ELSE LET r == Head(processes)
             rest == sumCpuMB(Tail(processes))
         IN  IF ~shouldAccountHostRam(r) THEN rest
             ELSE IF r.cpu = 0 THEN [total |-> 0, ok |-> FALSE]
             ELSE IF ~rest.ok THEN rest
             ELSE [total |-> r.cpu + rest.total, ok |-> TRUE]

ensureHostRamCapacity(process, running) ==
    IF cfg.hostRamCapMB = 0 \/ ~shouldAccountHostRam(process) THEN ErrNone
    ELSE IF process.cpu = 0 THEN ErrNone
    ELSE LET sum == sumCpuMB(running)
         IN  IF ~sum.ok THEN ErrNone
             ELSE IF sum.total + process.cpu > cfg.hostRamCapMB THEN ErrInsufficientHostRAM
             ELSE ErrNone

\* The candidate list of ScheduleProcess: one entry per GPU that has a plan.
RECURSIVE gpuCandidates(_, _, _, _)
gpuCandidates(gpus, running, process, requiredMB) ==
    IF gpus = <<>> THEN <<>>
    ELSE LET gpu == Head(gpus)
             assigned == processesOnGPU(running, gpu.Index)
             sel == selectEvictions(process, assigned, gpu.FreeMB, requiredMB)
             rest == gpuCandidates(Tail(gpus), running, process, requiredMB)
         IN  IF ~sel.ok THEN rest
             ELSE <<[gpuIndex |-> gpu.Index, evict |-> sel.evict,
                     freeMB |-> gpu.FreeMB, assigned |-> Len(assigned)]>> \o rest

\* Variant: free memory is compared before the number of occupants.
candidateLess_FreeFirst(x, y) ==
    IF Len(x.evict) # Len(y.evict) THEN Len(x.evict) < Len(y.evict)
    ELSE IF x.freeMB # y.freeMB THEN x.freeMB > y.freeMB
    ELSE IF x.assigned # y.assigned THEN x.assigned < y.assigned
    ELSE x.gpuIndex < y.gpuIndex

candidateLess(x, y) ==
    IF Len(x.evict) # Len(y.evict) THEN Len(x.evict) < Len(y.evict)
    ELSE IF x.assigned # y.assigned THEN x.assigned < y.assigned
    ELSE IF x.freeMB # y.freeMB THEN x.freeMB > y.freeMB
    ELSE x.gpuIndex < y.gpuIndex

\* Variant: on a tie the later GPU is kept.
RECURSIVE maxFreeGPU_LastOnTie(_, _)
maxFreeGPU_LastOnTie(chosen, gpus) ==
    IF gpus = <<>> THEN chosen
    ELSE maxFreeGPU_LastOnTie(IF Head(gpus).FreeMB >= chosen.FreeMB THEN Head(gpus) ELSE chosen,
                              Tail(gpus))

\* The GPU picked for a candidate whose VRAM footprint is unknown.
RECURSIVE maxFreeGPU(_, _)
maxFreeGPU(chosen, gpus) ==
    IF gpus = <<>> THEN chosen
    ELSE maxFreeGPU(IF Head(gpus).FreeMB > chosen.FreeMB THEN Head(gpus) ELSE chosen, Tail(gpus))

-----------------------------------------------------------------------------
(* The GPU inventory (GPUAllocator.GetGPUs): the free memory of a GPU is  *)
(* its total less what the children on it hold.  A Ready or Stopping child *)
(* holds its footprint; a Starting child that has been spawned holds it or *)
(* not yet (loaded); ext is memory held by programs outside the proxy.     *)

Spawned == {p \in Procs : state[p] = StateStarting /\ pc[p] = "spawn"}

Holds(p, loaded) == state[p] \in {StateReady, StateStopping} \/ p \in loaded

UsedMB(g, loaded, ext) ==
    ext[g] + SumSeq(ProcSeq, LAMBDA p :
                 IF assignedGPU[p] = g /\ Holds(p, loaded) THEN MeasuredVramMB(p) ELSE 0)

GetGPUs(loaded, ext) ==
    [i \in 1..Len(GPUSeq) |->
        LET g == GPUSeq[i]
            used == UsedMB(g, loaded, ext)
        IN  [Index |-> g,
             FreeMB |-> IF used >= cfg.total[g] THEN 0 ELSE cfg.total[g] - used,
             TotalMB |-> cfg.total[g]]]

ExtUsage == [GPUs -> 0..cfg.maxExt]

-----------------------------------------------------------------------------
(* Records of the scheduler's calls *)

NoCand == [gpuIndex |-> NoGPU, evict |-> <<>>, freeMB |-> 0, assigned |-> 0]

NoSched ==
    [proc |-> NoProc, requiredMB |-> 0, gpus |-> <<>>, running |-> <<>>,
     cands |-> <<>>, chosen |-> NoCand, evict |-> <<>>, stopped |-> {},
     res |-> "none"]

NoRet == [proc |-> NoProc, res |-> "none", kind |-> "none", d |-> NoSched]

Ids(rs) == [i \in 1..Len(rs) |-> rs[i].id]

-----------------------------------------------------------------------------
(* Process: the life cycle *)

\* lastRequestHandled is kept as a rank: the order of the time stamps, with
\* 0 for the zero time of a process that never handled a request.
Normalize(f) ==
    [q \in Procs |-> IF f[q] = 0 THEN 0
                     ELSE Cardinality({f[r] : r \in Procs} \cap (1..f[q]))]

Touch(p) ==
    Normalize([lastRequestHandled EXCEPT ![p] = Cardinality(Procs) + 1])

SetAssigned(p, g, env) ==
    /\ assignedGPU' = [assignedGPU EXCEPT ![p] = g]
    /\ runtimeEnv' = [runtimeEnv EXCEPT ![p] = env]

\* Process.start: Stopped -> Starting, then the pre-start hook.
StartBegin(p) ==
    /\ state[p] = StateStopped /\ pc[p] = "idle"
    /\ state' = [state EXCEPT ![p] = StateStarting]
    /\ pc' = [pc EXCEPT ![p] = "hook"]
    /\ ret' = NoRet
    /\ UNCHANGED <<cfg, footprints, assignedGPU, runtimeEnv, inFlight, calls, lastRequestHandled, mu, sched, evVars>>

\* Process.ProxyRequest enters: the counter goes up, a Stopped process starts.
ProxyEnter(p) ==
    /\ state[p] \in {StateStopped, StateStarting, StateReady}
    /\ calls[p] < MaxInFlight
    /\ inFlight' = [inFlight EXCEPT ![p] = @ + 1]
    /\ calls' = [calls EXCEPT ![p] = @ + 1]
    /\ IF state[p] = StateStopped /\ pc[p] = "idle"
       THEN /\ state' = [state EXCEPT ![p] = StateStarting]
            /\ pc' = [pc EXCEPT ![p] = "hook"]
       ELSE UNCHANGED <<state, pc>>
    /\ ret' = NoRet
    /\ UNCHANGED <<cfg, footprints, assignedGPU, runtimeEnv, lastRequestHandled, mu, sched, evVars>>

\* Variant: a return that leaves the counter as it is.
ProxyReturn_NoDecrement(p) ==
    /\ calls[p] > 0
    /\ calls' = [calls EXCEPT ![p] = @ - 1]
    /\ lastRequestHandled' = Touch(p)
    /\ ret' = NoRet
    /\ UNCHANGED <<cfg, footprints, state, assignedGPU, runtimeEnv, inFlight, pc, mu, sched, evVars>>

\* Process.ProxyRequest returns (response sent, upstream error, client gone,
\* start failed or process stopped under it).
ProxyReturn(p) ==
    /\ calls[p] > 0
    /\ inFlight' = [inFlight EXCEPT ![p] = @ - 1]
    /\ calls' = [calls EXCEPT ![p] = @ - 1]
    /\ lastRequestHandled' = Touch(p)
    /\ ret' = NoRet
    /\ UNCHANGED <<cfg, footprints, state, assignedGPU, runtimeEnv, pc, mu, sched, evVars>>

\* The state StopImmediately leaves a process in.
AfterStopImmediately(s) == IF s = StateReady THEN StateStopped ELSE s

\* Scheduler.ScheduleProcess, up to the scheduler's lock.
HostRamReject(p) ==
    /\ pc[p] = "hook"
    /\ ensureHostRamCapacity(Snap(p), Provider) # ErrNone
    /\ pc' = [pc EXCEPT ![p] = "failed"]
    /\ ret' = [proc |-> p, res |-> ErrInsufficientHostRAM, kind |-> "hostram", d |-> NoSched]
    /\ UNCHANGED <<cfg, footprints, state, assignedGPU, runtimeEnv, inFlight, calls, lastRequestHandled, mu, sched, evVars>>

\* Variant: every policy but spill goes on to GPU placement.
placesOnGPU_UnlessSpill(p) == FitPolicy(p) # PolicySpill

\* fitPolicy == "evict_to_fit": the only policy that goes on to GPU placement.
placesOnGPU(p) == FitPolicy(p) = PolicyEvict

ScheduleSpill(p) ==
    /\ pc[p] = "hook"
    /\ ensureHostRamCapacity(Snap(p), Provider) = ErrNone
    /\ FitPolicy(p) = PolicySpill
    /\ \E ext \in ExtUsage :
          LET gpus == applyVramCaps(GetGPUs({}, ext))
          IN  runtimeEnv' = [runtimeEnv EXCEPT ![p] = [i \in 1..Len(gpus) |-> gpus[i].Index]]
    /\ pc' = [pc EXCEPT ![p] = "spawn"]
    /\ ret' = [proc |-> p, res |-> ErrNone, kind |-> "spill", d |-> NoSched]
    /\ UNCHANGED <<cfg, footprints, state, assignedGPU, inFlight, calls, lastRequestHandled, mu, sched, evVars>>

ScheduleNoPlacement(p) ==
    /\ pc[p] = "hook"
    /\ ensureHostRamCapacity(Snap(p), Provider) = ErrNone
    /\ FitPolicy(p) # PolicySpill /\ ~placesOnGPU(p)
    /\ pc' = [pc EXCEPT ![p] = "spawn"]
    /\ ret' = [proc |-> p, res |-> ErrNone, kind |-> "noplacement", d |-> NoSched]
    /\ UNCHANGED <<cfg, footprints, state, assignedGPU, runtimeEnv, inFlight, calls, lastRequestHandled, mu, sched, evVars>>

ScheduleWaitLock(p) ==
    /\ pc[p] = "hook"
    /\ ensureHostRamCapacity(Snap(p), Provider) = ErrNone
    /\ FitPolicy(p) # PolicySpill /\ placesOnGPU(p)
    /\ pc' = [pc EXCEPT ![p] = "lock"]
    /\ ret' = NoRet
    /\ UNCHANGED <<cfg, footprints, state, assignedGPU, runtimeEnv, inFlight, calls, lastRequestHandled, mu, sched, evVars>>

\* The decision taken under Scheduler.mu from one inventory snapshot.
Decide(process, running, gpus) ==
    LET requiredMB == process.vram
        cands == gpuCandidates(gpus, running, process, requiredMB)
        sorted == SortSlice(cands, candidateLess)
    IN  [proc |-> process.id, requiredMB |-> requiredMB, gpus |-> gpus,
         running |-> running, cands |-> cands,
         chosen |-> IF cands = <<>> THEN NoCand ELSE sorted[1],
         evict |-> IF cands = <<>> THEN <<>> ELSE Ids(sorted[1].evict),
         stopped |-> {},
         res |-> IF cands = <<>> THEN ErrInsufficientVRAM ELSE ErrNone]

Decision(p, gpus) == Decide(Snap(p), Provider, gpus)

\* requiredMB = 0: the GPU with the most free memory, nobody evicted.
PlaceUnknown(p) ==
    /\ pc[p] = "lock" /\ mu = NoProc
    /\ MeasuredVramMB(p) = 0
    /\ \E loaded \in SUBSET Spawned, ext \in ExtUsage :
          LET gpus == applyVramCaps(GetGPUs(loaded, ext))
              chosen == maxFreeGPU(gpus[1], Tail(gpus))
          IN  /\ SetAssigned(p, chosen.Index, <<chosen.Index>>)
              /\ ret' = [proc |-> p, res |-> ErrNone, kind |-> "unknown",
                         d |-> [NoSched EXCEPT !.proc = p, !.gpus = gpus, !.running = Provider,
                                               !.chosen.gpuIndex = chosen.Index]]
    /\ pc' = [pc EXCEPT ![p] = "spawn"]
    /\ UNCHANGED <<cfg, footprints, state, inFlight, calls, lastRequestHandled, mu, sched, evVars>>

PlaceReject(p) ==
    /\ pc[p] = "lock" /\ mu = NoProc
    /\ MeasuredVramMB(p) # 0
    /\ \E loaded \in SUBSET Spawned, ext \in ExtUsage :
          LET d == Decision(p, applyVramCaps(GetGPUs(loaded, ext)))
          IN  /\ d.res = ErrInsufficientVRAM
              /\ ret' = [proc |-> p, res |-> d.res, kind |-> "placement", d |-> d]
    /\ pc' = [pc EXCEPT ![p] = "failed"]
    /\ UNCHANGED <<cfg, footprints, state, assignedGPU, runtimeEnv, inFlight, calls, lastRequestHandled, mu, sched, evVars>>

\* A plan without evictions: the candidate is assigned at once.
PlaceFree(p) ==
    /\ pc[p] = "lock" /\ mu = NoProc
    /\ MeasuredVramMB(p) # 0
    /\ \E loaded \in SUBSET Spawned, ext \in ExtUsage :
          LET d == Decision(p, applyVramCaps(GetGPUs(loaded, ext)))
          IN  /\ d.res = ErrNone /\ d.evict = <<>>
              /\ SetAssigned(p, d.chosen.gpuIndex, <<d.chosen.gpuIndex>>)
              /\ ret' = [proc |-> p, res |-> d.res, kind |-> "placement", d |-> d]
    /\ pc' = [pc EXCEPT ![p] = "spawn"]
    /\ UNCHANGED <<cfg, footprints, state, inFlight, calls, lastRequestHandled, mu, sched, evVars>>

\* A plan with evictions: the lock is kept while the evictees are stopped.
PlaceEvicting(p) ==
    /\ pc[p] = "lock" /\ mu = NoProc
    /\ MeasuredVramMB(p) # 0
    /\ \E loaded \in SUBSET Spawned, ext \in ExtUsage :
          LET d == Decision(p, applyVramCaps(GetGPUs(loaded, ext)))
          IN  /\ d.res = ErrNone /\ d.evict # <<>>
              /\ sched' = d
    /\ mu' = p
    /\ pc' = [pc EXCEPT ![p] = "evict"]
    /\ ret' = NoRet
    /\ UNCHANGED <<cfg, footprints, state, assignedGPU, runtimeEnv, inFlight, calls, lastRequestHandled, evVars>>

\* evicted.StopImmediately() for the next process of the plan; stopped
\* records the evictees that were Stopped when their call returned.
EvictNext(p) ==
    /\ pc[p] = "evict" /\ mu = p /\ sched.evict # <<>>
    /\ state' = [state EXCEPT ![Head(sched.evict)] = AfterStopImmediately(@)]
    /\ sched' = [sched EXCEPT !.evict = Tail(@),
                              !.stopped = IF AfterStopImmediately(state[Head(sched.evict)]) = StateStopped
                                          THEN @ \cup {Head(sched.evict)} ELSE @]
    /\ ret' = NoRet
    /\ UNCHANGED <<cfg, footprints, assignedGPU, runtimeEnv, inFlight, calls, lastRequestHandled, pc, mu, evVars>>

\* SetAssignedGPU, SetRuntimeEnv, unlock, return nil.
PlaceCommit(p) ==
    /\ pc[p] = "evict" /\ mu = p /\ sched.evict = <<>>
    /\ SetAssigned(p, sched.chosen.gpuIndex, <<sched.chosen.gpuIndex>>)
    /\ mu' = NoProc
    /\ sched' = NoSched
    /\ pc' = [pc EXCEPT ![p] = "spawn"]
    /\ ret' = [proc |-> p, res |-> ErrNone, kind |-> "placement",
               d |-> [sched EXCEPT !.evict = Ids(sched.chosen.evict)]]
    /\ UNCHANGED <<cfg, footprints, state, inFlight, calls, lastRequestHandled, evVars>>

\* Variant: the state is set to Ready whatever it has become meanwhile.
HealthOK_Unchecked(p) ==
    /\ pc[p] = "spawn"
    /\ state' = [state EXCEPT ![p] = StateReady]
    /\ pc' = [pc EXCEPT ![p] = "idle"]
    /\ ret' = NoRet
    /\ UNCHANGED <<cfg, footprints, assignedGPU, runtimeEnv, inFlight, calls, lastRequestHandled, mu, sched, evVars>>

\* Health check passed: Starting -> Ready.
HealthOK(p) ==
    /\ pc[p] = "spawn" /\ state[p] = StateStarting
    /\ state' = [state EXCEPT ![p] = StateReady]
    /\ pc' = [pc EXCEPT ![p] = "idle"]
    /\ ret' = NoRet
    /\ UNCHANGED <<cfg, footprints, assignedGPU, runtimeEnv, inFlight, calls, lastRequestHandled, mu, sched, evVars>>

\* The log pump passes a line with a memory report of the child to
\* MemoryTracker.ObserveLog: a zero field keeps the value on record.
ObserveLog(p) ==
    /\ state[p] \in {StateReady, StateStopping} \/ p \in Spawned
    /\ cfg.logVram[p] > 0 \/ cfg.logCpu[p] > 0
    /\ footprints' = [footprints EXCEPT ![p] =
           [fp |-> [VramMB |-> IF cfg.logVram[p] = 0 THEN @.fp.VramMB ELSE cfg.logVram[p],
                    CpuMB |-> IF cfg.logCpu[p] = 0 THEN @.fp.CpuMB ELSE cfg.logCpu[p]],
            ok |-> TRUE]]
    /\ ret' = NoRet
    /\ UNCHANGED <<cfg, procVars, mu, sched, evVars>>

\* The hook refused, the spawn failed or the health check failed or timed
\* out: Starting -> Stopped, assignments released.
StartFail(p) ==
    /\ pc[p] \in {"failed", "spawn"} /\ state[p] = StateStarting
    /\ state' = [state EXCEPT ![p] = StateStopped]
    /\ SetAssigned(p, NoGPU, <<>>)
    /\ pc' = [pc EXCEPT ![p] = "idle"]
    /\ ret' = NoRet
    /\ UNCHANGED <<cfg, footprints, inFlight, calls, lastRequestHandled, mu, sched, evVars>>

\* Process.Stop: Ready -> Stopping.
Stop(p) ==
    /\ state[p] = StateReady
    /\ state' = [state EXCEPT ![p] = StateStopping]
    /\ ret' = NoRet
    /\ UNCHANGED <<cfg, footprints, assignedGPU, runtimeEnv, inFlight, calls, lastRequestHandled, pc, mu, sched, evVars>>

\* The child has drained or has been killed: Stopping -> Stopped.
StopDone(p) ==
    /\ state[p] = StateStopping
    /\ state' = [state EXCEPT ![p] = StateStopped]
    /\ ret' = NoRet
    /\ UNCHANGED <<cfg, footprints, assignedGPU, runtimeEnv, inFlight, calls, lastRequestHandled, pc, mu, sched, evVars>>

\* Process.StopImmediately from outside the scheduler (the unload API).
StopImmediately(p) ==
    /\ state[p] = StateReady
    /\ state' = [state EXCEPT ![p] = AfterStopImmediately(@)]
    /\ ret' = NoRet
    /\ UNCHANGED <<cfg, footprints, assignedGPU, runtimeEnv, inFlight, calls, lastRequestHandled, pc, mu, sched, evVars>>

\* Process.Shutdown (ProcessGroup.Shutdown calls it on every member).
Shutdown(p) ==
    /\ state[p] # StateShutdown
    /\ state' = [state EXCEPT ![p] = StateShutdown]
    /\ ret' = NoRet
    /\ UNCHANGED <<cfg, footprints, assignedGPU, runtimeEnv, inFlight, calls, lastRequestHandled, pc, mu, sched, evVars>>

\* A start() whose process was shut down under it ends without a transition.
StartAbandon(p) ==
    /\ pc[p] \in {"failed", "spawn"} /\ state[p] = StateShutdown
    /\ pc' = [pc EXCEPT ![p] = "idle"]
    /\ ret' = NoRet
    /\ UNCHANGED <<cfg, footprints, state, assignedGPU, runtimeEnv, inFlight, calls, lastRequestHandled, mu, sched, evVars>>

-----------------------------------------------------------------------------

AB == <<"a", "b">>

Fn(procs, f) == [i \in {procs[j] : j \in 1..Len(procs)} |-> f[i]]

\* Two evict_to_fit models; the larger one fits GPU 0 only.
BaseConfig ==
    [procs |-> AB,
     policy |-> Fn(AB, [a |-> PolicyEvict, b |-> PolicyEvict]),
     excl |-> Fn(AB, [a |-> FALSE, b |-> FALSE]),
     vram |-> Fn(AB, [a |-> 1, b |-> 2]),
     cpu |-> Fn(AB, [a |-> 0, b |-> 0]),
     logVram |-> Fn(AB, [a |-> 0, b |-> 0]),
     logCpu |-> Fn(AB, [a |-> 0, b |-> 0]),
     swapGroup |-> Fn(AB, [a |-> "g", b |-> "g"]),
     hostRamCapMB |-> 0,
     gpuVramCapMB |-> 0,
     gpuVramCapsMB |-> <<>>,
     total |-> [g \in GPUs |-> IF g = 0 THEN 2 ELSE 1],
     maxExt |-> 0]

Configs ==
    { BaseConfig,
      \* GPU 0 capped to 1 MB by gpuVramCapsMB, GPU 1 by the global cap
      [BaseConfig EXCEPT !.total = [g \in GPUs |-> 3], !.gpuVramCapsMB = <<1>>,
                         !.gpuVramCapMB = 2],
      \* host RAM cap that admits both; b has no VRAM footprint
      [BaseConfig EXCEPT !.hostRamCapMB = 3, !.cpu = Fn(AB, [a |-> 1, b |-> 1]),
                         !.policy = Fn(AB, [a |-> PolicyDefault, b |-> PolicyEvict]),
                         !.vram = Fn(AB, [a |-> 1, b |-> 0])],
      \* host RAM cap that the configured models exceed
      \* (b alone exceeds it, and b has no VRAM footprint)
      [BaseConfig EXCEPT !.hostRamCapMB = 3, !.cpu = Fn(AB, [a |-> 2, b |-> 4]),
                         !.vram = Fn(AB, [a |-> 1, b |-> 0])],
      \* b has no VRAM footprint; GPU 1 is the larger one
      [BaseConfig EXCEPT !.vram = Fn(AB, [a |-> 1, b |-> 0]),
                         !.total = [g \in GPUs |-> IF g = 0 THEN 1 ELSE 2]],
      \* a spill model beside a cpu_moe model under a host RAM cap
      \* whose log reports a larger host RAM footprint than the one on record
      [BaseConfig EXCEPT !.hostRamCapMB = 2, !.cpu = Fn(AB, [a |-> 3, b |-> 1]),
                         !.logCpu = Fn(AB, [a |-> 0, b |-> 3]),
                         !.policy = Fn(AB, [a |-> PolicySpill, b |-> PolicyCpuMoe])],
      \* a has no host RAM footprint yet
      [BaseConfig EXCEPT !.hostRamCapMB = 2, !.cpu = Fn(AB, [a |-> 0, b |-> 2]),
                         !.policy = Fn(AB, [a |-> PolicyDefault, b |-> PolicyCpuMoe])],
      \* a is GroupExclusive
      [BaseConfig EXCEPT !.excl = Fn(AB, [a |-> TRUE, b |-> FALSE])],
      \* a is GroupExclusive; b has no VRAM footprint
      [BaseConfig EXCEPT !.excl = Fn(AB, [a |-> TRUE, b |-> FALSE]),
                         !.vram = Fn(AB, [a |-> 1, b |-> 0])] }

-----------------------------------------------------------------------------
(* proxy/memory_tracker.go *)

Sigs == {"s1", "s2"}
Callers == {"w1", "w2"}

\* MemoryFootprint{}
NoFootprint == [VramMB |-> 0, CpuMB |-> 0]

\* A log line, by what the patterns of parseMemoryFromLog find in it:
\* "none" has no measurement, "plain" matches plainVRAMRegex, "llama" is
\* left to the llama.cpp patterns (or is a JSON payload). vram and cpu are
\* the sizes in whole MB (a size below 1 MiB is 0 MB).
Lines ==
    {[kind |-> "none", vram |-> 0, cpu |-> 0]}
        \cup [kind : {"plain", "llama"}, vram : 0..MaxMB, cpu : 0..MaxMB]

\* Variant: every line is a match.
parseMemoryFromLog_AlwaysOK(line) ==
    [fp |-> [VramMB |-> line.vram, CpuMB |-> line.cpu], ok |-> TRUE]

parseMemoryFromLog(line) ==
    IF line.kind = "plain"
    THEN [fp |-> [VramMB |-> line.vram, CpuMB |-> line.cpu], ok |-> TRUE]
    ELSE IF line.kind = "llama" /\ (line.vram > 0 \/ line.cpu > 0)
    THEN [fp |-> [VramMB |-> line.vram, CpuMB |-> line.cpu], ok |-> TRUE]
    ELSE [fp |-> NoFootprint, ok |-> FALSE]

\* Variant: no entry is ever found.
Get_Miss(signature) == [fp |-> NoFootprint, ok |-> FALSE]

Get(signature) == tracked[signature]

Set(signature, footprint) ==
    [tracked EXCEPT ![signature] = [fp |-> footprint, ok |-> TRUE]]

\* Variant: a missing VRAM figure is taken from the CPU field of the entry.
merge_WrongField(existing, footprint) ==
    [VramMB |-> IF footprint.VramMB = 0 THEN existing.CpuMB ELSE footprint.VramMB,
     CpuMB |-> IF footprint.CpuMB = 0 THEN existing.CpuMB ELSE footprint.CpuMB]

\* ObserveLog: the zero fields of the parsed footprint inherit the entry's.
merge(existing, footprint) ==
    [VramMB |-> IF footprint.VramMB = 0 THEN existing.VramMB ELSE footprint.VramMB,
     CpuMB |-> IF footprint.CpuMB = 0 THEN existing.CpuMB ELSE footprint.CpuMB]

NoTracked == [s \in Sigs |-> [fp |-> NoFootprint, ok |-> FALSE]]
NoObs ==
    [w \in Callers |-> [pc |-> "done", signature |-> "s1",
                         line |-> [kind |-> "none", vram |-> 0, cpu |-> 0],
                         footprint |-> NoFootprint, matched |-> FALSE]]
NoMgIn == [A |-> NoFootprint, B |-> NoFootprint, C |-> NoFootprint]
NoMgOut == [done |-> FALSE, left |-> NoFootprint, right |-> NoFootprint,
            zeroNew |-> NoFootprint, zeroOld |-> NoFootprint]

QuietTracker == tracked = NoTracked /\ obs = NoObs /\ mgIn = NoMgIn /\ mgOut = NoMgOut

-----------------------------------------------------------------------------
(* proxy/process.go: Process.start and its callers *)

StartCallers == {"k1", "k2"}
NoCaller == "none"

\* A stopped process that nobody has started.
NoLife ==
    [state |-> StateStopped, assignedGPU |-> NoGPU, runtimeEnv |-> <<>>,
     child |-> FALSE, step |-> "none", runner |-> NoCaller,
     begun |-> 0, hookCalls |-> 0, hookResult |-> "none", spawns |-> 0]

NoStartCalls == [k \in StartCallers |-> [pc |-> "idle", round |-> 0, result |-> "none"]]

-----------------------------------------------------------------------------
(* proxy/proxymanager.go: ProxyManager.swapProcessGroup *)

Groups == {"g1", "g2", "g3"}
NoGroup == "none"
SwapCalls == {"r1", "r2"}
NoSwapCall == "none"

\* The exclusivity domain of a group: g1 and g2 exclude each other.
Domain(g) == IF g = "g3" THEN "d2" ELSE "d1"
Domains == {Domain(g) : g \in Groups}

NoSwap ==
    [mu |-> [d \in Domains |-> NoSwapCall],
     active |-> [d \in Domains |-> NoGroup],
     ready |-> [g \in Groups |-> FALSE],
     call |-> [r \in SwapCalls |-> [pc |-> "idle", group |-> NoGroup]]]

-----------------------------------------------------------------------------
(* The locks of the scheduler, of the process groups and of the swap *)

Threads == {"t1", "t2"}
NoThread == "none"

\* Two models, each the one member of its group; the groups exclude each
\* other (one exclusivity domain, one swap mutex).
Models == {"a", "b"}
GroupOf(m) == IF m = "a" THEN "g1" ELSE "g2"
ModelGroups == {GroupOf(m) : m \in Models}
Members(g) == {m \in Models : GroupOf(m) = g}

IdleThread == [op |-> "none", pc |-> "idle", model |-> "none", group |-> NoGroup, strategy |-> "none", plan |-> {}]

NoLocks ==
    [state |-> [m \in Models |-> StateStopped],
     mu |-> NoThread,
     swapMu |-> NoThread,
     pgMu |-> [g \in ModelGroups |-> NoThread],
     active |-> NoGroup,
     th |-> [t \in Threads |-> IdleThread]]

-----------------------------------------------------------------------------
(* proxy/ui_websocket.go *)

\* The capacity of a client's send channel and of the hub's broadcast
\* channel (256 each in the code).
SendCap == 1
QueueCap == 2

WSClients == {"c1", "c2"}
NoClient == "none"

\* NewWSHub: no client, empty channels; Run waits in its select.
NoHub ==
    [clients |-> {},
     broadcast |-> 0,
     pc |-> "select",
     range |-> {},
     full |-> NoClient,
     client |-> [c \in WSClients |-> [pc |-> "new", send |-> 0, closed |-> FALSE, subscribed |-> FALSE]],
     caller |-> "idle",
     dropped |-> FALSE]

QuietLife ==
    /\ life = NoLife /\ startCalls = NoStartCalls /\ swap = NoSwap /\ locks = NoLocks
    /\ hub = NoHub

NoEvIn == [process |-> NoSched, assigned |-> <<>>, freeMB |-> 0, requiredMB |-> 0]
NoEvOut == [done |-> FALSE, evict |-> <<>>, ok |-> FALSE]
NoDecIn == [process |-> NoSched, running |-> <<>>, gpus |-> <<>>]
NoDecOut == [done |-> FALSE, d |-> NoSched]

QuietInit ==
    /\ footprints = [p \in Procs |-> [fp |-> [VramMB |-> 0, CpuMB |-> 0], ok |-> FALSE]]
    /\ state = [p \in Procs |-> StateStopped]
    /\ assignedGPU = [p \in Procs |-> NoGPU]
    /\ runtimeEnv = [p \in Procs |-> <<>>]
    /\ inFlight = [p \in Procs |-> 0]
    /\ calls = [p \in Procs |-> 0]
    /\ lastRequestHandled = [p \in Procs |-> 0]
    /\ pc = [p \in Procs |-> "idle"]
    /\ mu = NoProc
    /\ sched = NoSched
    /\ ret = NoRet

Init ==
    /\ cfg \in Configs
    /\ QuietInit
    /\ evIn = NoEvIn
    /\ evOut = NoEvOut
    /\ decIn = NoDecIn
    /\ decOut = NoDecOut
    /\ QuietTracker
    /\ QuietLife

Next ==
    \/ \E p \in Procs : StartBegin(p)
    \/ \E p \in Procs : ProxyEnter(p)
    \/ \E p \in Procs : ProxyReturn(p)
    \/ \E p \in Procs : HostRamReject(p)
    \/ \E p \in Procs : ScheduleSpill(p)
    \/ \E p \in Procs : ScheduleNoPlacement(p)
    \/ \E p \in Procs : ScheduleWaitLock(p)
    \/ \E p \in Procs : PlaceUnknown(p)
    \/ \E p \in Procs : PlaceReject(p)
    \/ \E p \in Procs : PlaceFree(p)
    \/ \E p \in Procs : PlaceEvicting(p)
    \/ \E p \in Procs : EvictNext(p)
    \/ \E p \in Procs : PlaceCommit(p)
    \/ \E p \in Procs : HealthOK(p)
    \/ \E p \in Procs : ObserveLog(p)
    \/ \E p \in Procs : StartFail(p)
    \/ \E p \in Procs : Stop(p)
    \/ \E p \in Procs : StopDone(p)
    \/ \E p \in Procs : StopImmediately(p)
    \/ \E p \in Procs : Shutdown(p)
    \/ \E p \in Procs : StartAbandon(p)

Spec == Init /\ [][Next]_vars

-----------------------------------------------------------------------------
(* SpecEvict: selectEvictions on enumerated arguments.                     *)

OccIds == <<"x", "y", "z">>
Ranks == 0..MaxRank

\* An occupant as selectEvictions reads it (the list holds Ready and
\* Starting processes of one GPU).
Occupant(id, v, busy, last, excl) ==
    [id |-> id, state |-> StateReady, gpu |-> 0, vram |-> v, cpu |-> 0,
     inflight |-> busy, last |-> last, excl |-> excl, policy |-> PolicyEvict]

\* The lists of at most Len(ids) occupants.
OccupantLists(ids) ==
    UNION {
        { [i \in 1..n |-> Occupant(ids[i], v[i], busy[i], last[i], i = 1 /\ excl)] :
            v \in [1..n -> 0..MaxMB], busy \in [1..n -> 0..MaxInFlight],
            last \in [1..n -> Ranks], excl \in BOOLEAN }
        : n \in 0..Len(ids) }

EvictInputs(ids) ==
    [process : {Occupant("cand", 1, 0, 0, e) : e \in BOOLEAN},
     assigned : OccupantLists(ids),
     freeMB : 0..MaxMB,
     requiredMB : 1..(MaxMB + 1)]

EvSelect ==
    /\ ~evOut.done
    /\ LET r == selectEvictions(evIn.process, evIn.assigned, evIn.freeMB, evIn.requiredMB)
       IN  evOut' = [done |-> TRUE, evict |-> r.evict, ok |-> r.ok]
    /\ UNCHANGED <<cfg, footprints, procVars, schedVars, evIn, decIn, decOut, trVars>>

InitEvict ==
    /\ cfg = BaseConfig
    /\ QuietInit
    /\ evIn \in EvictInputs(OccIds)
    /\ evOut = NoEvOut
    /\ decIn = NoDecIn
    /\ decOut = NoDecOut
    /\ QuietTracker
    /\ QuietLife

NextEvict == EvSelect

SpecEvict == InitEvict /\ [][NextEvict]_vars

-----------------------------------------------------------------------------
(* SpecDecide: the decision of ScheduleProcess for a candidate with a      *)
(* known VRAM footprint, on enumerated provider() lists and inventories.   *)

DecIds == <<"x", "y">>

\* A process of the provider() list.
Listed(id, st, g, v, busy, last) ==
    [id |-> id, state |-> st, gpu |-> g, vram |-> v, cpu |-> 0,
     inflight |-> busy, last |-> last, excl |-> FALSE, policy |-> PolicyEvict]

\* The candidate is Starting; its assignedGPU is -1 or left from an earlier
\* run; a candidate that was never placed may be GroupExclusive.
DecCandidates ==
    {Listed("cand", StateStarting, g, v, 0, 0) : g \in {NoGPU, 0}, v \in 1..MaxMB}
        \cup {[Listed("cand", StateStarting, NoGPU, v, 0, 0) EXCEPT !.excl = TRUE] : v \in 1..MaxMB}

DecOthers(ids) ==
    LET n == Len(ids)
    IN  { [i \in 1..n |-> Listed(ids[i], st[i], g[i], v[i], busy[i], last[i])] :
            st \in [1..n -> {StateReady, StateStarting, StateStopped}],
            g \in [1..n -> GPUs], v \in [1..n -> 0..MaxMB],
            busy \in [1..n -> 0..MaxInFlight], last \in [1..n -> 0..(n - 1)] }

DecInventories ==
    { [i \in 1..Len(GPUSeq) |-> [Index |-> GPUSeq[i], FreeMB |-> free[i], TotalMB |-> MaxMB]] :
        free \in [1..Len(GPUSeq) -> 0..MaxMB] }

DecideInputs(ids) ==
    { [process |-> c, running |-> <<c>> \o others, gpus |-> gpus] :
        c \in DecCandidates, others \in DecOthers(ids), gpus \in DecInventories }

DecSelect ==
    /\ ~decOut.done
    /\ decOut' = [done |-> TRUE, d |-> Decide(decIn.process, decIn.running, decIn.gpus)]
    /\ UNCHANGED <<cfg, footprints, procVars, schedVars, evIn, evOut, decIn, trVars>>

InitDecide ==
    /\ cfg = BaseConfig
    /\ QuietInit
    /\ evIn = NoEvIn
    /\ evOut = NoEvOut
    /\ decIn \in DecideInputs(DecIds)
    /\ decOut = NoDecOut
    /\ QuietTracker
    /\ QuietLife

NextDecide == DecSelect

SpecDecide == InitDecide /\ [][NextDecide]_vars

-----------------------------------------------------------------------------
(* Properties *)

UsesCapacity(p) == state[p] \in {StateReady, StateStarting}

SumVramOn(g) ==
    SumSeq(ProcSeq, LAMBDA p :
        IF UsesCapacity(p) /\ assignedGPU[p] = g THEN MeasuredVramMB(p) ELSE 0)

CappedTotalMB(g) ==
    LET capMB == vramCapForGPU(g)
    IN  IF (cfg.gpuVramCapMB # 0 \/ Len(cfg.gpuVramCapsMB) # 0) /\ capMB > 0
        THEN Min(cfg.total[g], capMB)
        ELSE cfg.total[g]

ReturnedOK == ret.proc # NoProc /\ ret.res = ErrNone

\* C1: right after a ScheduleProcess call has returned OK, the measured VRAM
\* of the Ready and Starting processes assigned to a GPU is at most the
\* GPU's capped total.
C1_VramWithinCappedTotal ==
    ReturnedOK => \A g \in GPUs : SumVramOn(g) <= CappedTotalMB(g)

AllCpuKnown == \A p \in Procs : FitPolicy(p) # PolicySpill => MeasuredCpuMB(p) > 0

SumCpuAccounted ==
    SumSeq(ProcSeq, LAMBDA p :
        IF FitPolicy(p) # PolicySpill /\ UsesCapacity(p) THEN MeasuredCpuMB(p) ELSE 0)

\* C2: with a host RAM cap and a known CPU footprint of every non-spill
\* process, right after a ScheduleProcess call has returned OK the measured
\* CPU MB of the non-spill Ready and Starting processes sum to at most the cap.
C2_HostRamWithinCap ==
    ReturnedOK /\ cfg.hostRamCapMB > 0 /\ AllCpuKnown
        => SumCpuAccounted <= cfg.hostRamCapMB

\* C4: when ScheduleProcess has returned OK with a non-empty eviction plan,
\* every process of the plan was in state Stopped when its StopImmediately
\* call returned, before the candidate was assigned.
C4_EvicteesStopped ==
    ReturnedOK /\ ret.kind = "placement"
        => \A i \in 1..Len(ret.d.evict) : ret.d.evict[i] \in ret.d.stopped

SameDomain(p, q) == p # q /\ cfg.swapGroup[p] = cfg.swapGroup[q]

\* C5: at most one process of an exclusivity domain (swap group) is in state
\* Ready or Starting.
C5_OnePerDomain ==
    \A p, q \in Procs : SameDomain(p, q) => ~(UsesCapacity(p) /\ UsesCapacity(q))

LegalTransitions ==
    {<<StateStopped, StateStarting>>, <<StateStarting, StateReady>>,
     <<StateStarting, StateStopped>>, <<StateReady, StateStopping>>,
     <<StateReady, StateStopped>>, <<StateStopping, StateStopped>>}
        \cup {<<s, StateShutdown>> : s \in States \ {StateShutdown}}

\* C6: every change of a process's state is one of the listed transitions,
\* and a process in Shutdown never changes state again.
C6_LegalTransitions ==
    [][\A p \in Procs : state'[p] # state[p] => <<state[p], state'[p]>> \in LegalTransitions]_vars

\* A process shut down while its start() is still under way, beside a Ready one.
C6_Witness ==
    \E p, q \in Procs :
        /\ state[p] = StateShutdown /\ pc[p] = "spawn"
        /\ state[q] = StateReady

-----------------------------------------------------------------------------
(* selectEvictions (SpecEvict) *)

EvIdle == SelectSeq(evIn.assigned, LAMBDA r : r.inflight = 0)
EvBusy == SelectSeq(evIn.assigned, LAMBDA r : r.inflight > 0)
EvAllKnown == \A i \in 1..Len(evIn.assigned) : evIn.assigned[i].vram > 0
EvExclusive ==
    evIn.process.excl \/ \E i \in 1..Len(evIn.assigned) : evIn.assigned[i].excl
VramOf(rs) == SumSeq(rs, LAMBDA r : r.vram)

\* C3: a plan returned by selectEvictions holds no occupant with requests in
\* flight, and when the free memory plus the VRAM of the idle occupants is
\* below the requirement (only busy occupants could make up the rest) the
\* GPU is unfit.
C3_BusyNeverPlanned ==
    evOut.done =>
        /\ evOut.ok => \A i \in 1..Len(evOut.evict) : evOut.evict[i].inflight = 0
        /\ evIn.freeMB + VramOf(EvIdle) < evIn.requiredMB => ~evOut.ok

\* A fit plan that evicts an idle occupant while a busy one stays.
C3_Witness ==
    /\ evOut.done /\ evOut.ok /\ evOut.evict # <<>>
    /\ \E i \in 1..Len(EvBusy) : EvBusy[i].vram > 0

\* P is the shortest prefix of the idle occupants, least recently used
\* first, that frees enough memory.
IsShortestLRUPrefix(P) ==
    LET n == Len(P)
        planned == {P[i].id : i \in 1..n}
    IN  /\ n >= 1
        /\ \A i \in 1..n : \E j \in 1..Len(EvIdle) : EvIdle[j] = P[i]
        /\ \A i, j \in 1..n : i < j => P[i].id # P[j].id /\ P[i].last <= P[j].last
        /\ \A j \in 1..Len(EvIdle) :
               EvIdle[j].id \notin planned => \A i \in 1..n : P[i].last <= EvIdle[j].last
        /\ evIn.freeMB + VramOf(P) >= evIn.requiredMB
        /\ evIn.freeMB + VramOf(SubSeq(P, 1, n - 1)) < evIn.requiredMB

PlanIsLRUPrefix ==
    IF evIn.freeMB >= evIn.requiredMB THEN evOut.ok /\ evOut.evict = <<>>
    ELSE IF evIn.freeMB + VramOf(EvIdle) < evIn.requiredMB THEN ~evOut.ok
    ELSE evOut.ok /\ IsShortestLRUPrefix(evOut.evict)

\* C9 as stated: for occupants that all have a known VRAM footprint the plan
\* is empty when the free memory suffices, else the shortest LRU prefix of
\* the idle occupants, else the GPU is unfit.
C9_AsStated ==
    evOut.done /\ EvAllKnown => PlanIsLRUPrefix

\* C9: the same, for a candidate that is not GroupExclusive and occupants of
\* which none is GroupExclusive (with an exclusive process involved, every
\* occupant is evicted, or the GPU is unfit when one of them is busy).
C9_LRUShortestPrefix ==
    evOut.done /\ EvAllKnown /\ ~EvExclusive => PlanIsLRUPrefix

\* Three idle occupants, the two least recently used are evicted and the
\* first of the list is not the first of the plan.
C9_Witness ==
    /\ evOut.done /\ EvAllKnown /\ ~EvExclusive /\ evOut.ok
    /\ Len(EvIdle) = 3 /\ Len(evOut.evict) = 2
    /\ evOut.evict[1].id # evIn.assigned[1].id

-----------------------------------------------------------------------------
(* The decision of ScheduleProcess (SpecDecide) *)

DecOccupants(g) ==
    SelectSeq(decIn.running,
              LAMBDA r : r.gpu = g /\ r.state \in {StateReady, StateStarting})

DecFree(g) == (CHOOSE i \in 1..Len(decIn.gpus) : decIn.gpus[i].Index = g)

DecPlan(g) ==
    selectEvictions(decIn.process, DecOccupants(g), decIn.gpus[DecFree(g)].FreeMB,
                    decIn.process.vram)

\* The key of GPU g: evictions, occupants, free MB (larger first), index.
DecKey(g) ==
    <<Len(DecPlan(g).evict), Len(DecOccupants(g)),
      MaxMB - decIn.gpus[DecFree(g)].FreeMB, g>>

LexLE(k1, k2) ==
    \/ k1 = k2
    \/ \E i \in 1..Len(k1) : k1[i] < k2[i] /\ \A j \in 1..(i - 1) : k1[j] = k2[j]

DecFit == {g \in GPUs : DecPlan(g).ok}

\* C8: the GPU chosen for the candidate has a fit plan and the least key
\* (evictions, occupants, larger free MB first, index) of the GPUs that have
\* one; the plan carried out is the plan of that GPU.
C8_LexicographicChoice ==
    decOut.done /\ DecFit # {} =>
        LET g == decOut.d.chosen.gpuIndex
        IN  /\ g \in DecFit
            /\ \A h \in DecFit : LexLE(DecKey(g), DecKey(h))
            /\ decOut.d.chosen.evict = DecPlan(g).evict

\* Both GPUs fit and the one chosen has less free memory than the other.
C8_Witness ==
    /\ decOut.done /\ DecFit = GPUs
    /\ \E h \in GPUs :
           decIn.gpus[DecFree(h)].FreeMB > decOut.d.chosen.freeMB

DecUnknownOn(g) ==
    \E i \in 1..Len(DecOccupants(g)) : DecOccupants(g)[i].vram = 0

\* C10: a GPU with an occupant of unknown VRAM is neither chosen for a
\* candidate with known VRAM nor is anything evicted from it.
C10_UnknownOccupantUnfit ==
    decOut.done =>
        \A g \in GPUs : DecUnknownOn(g) =>
            /\ decOut.d.chosen.gpuIndex # g
            /\ \A i \in 1..Len(decOut.d.chosen.evict) : decOut.d.chosen.evict[i].gpu # g

\* The GPU of the unknown occupant has room for the candidate, which is
\* placed on the other GPU after an eviction there.
C10_Witness ==
    /\ decOut.done
    /\ \E g \in GPUs :
           /\ DecUnknownOn(g)
           /\ decIn.gpus[DecFree(g)].FreeMB >= decIn.process.vram
           /\ decOut.d.chosen.gpuIndex \in GPUs \ {g}
           /\ decOut.d.chosen.evict # <<>>

-----------------------------------------------------------------------------
(* Reservation, serialisation and the results of ScheduleProcess (Spec) *)

\* C11: right after a candidate has been placed on a GPU, no other process
\* that is Starting or Ready on that GPU has, together with the candidate,
\* more measured VRAM than the GPU's capped total.
C11_StartingReserves ==
    ReturnedOK /\ ret.kind = "placement" =>
        \A q \in Procs \ {ret.proc} :
            UsesCapacity(q) /\ assignedGPU[q] = assignedGPU[ret.proc]
                => MeasuredVramMB(q) + MeasuredVramMB(ret.proc)
                       <= CappedTotalMB(assignedGPU[ret.proc])

\* The call of q has read the host RAM sum over provider() (it waits for
\* Scheduler.mu) or holds the mutex, and has not returned.
ReadsHostRam(q) ==
    cfg.hostRamCapMB > 0 /\ FitPolicy(q) # PolicySpill /\ MeasuredCpuMB(q) > 0

InDecision(q) == (pc[q] = "lock" /\ ReadsHostRam(q)) \/ pc[q] = "evict"

\* C12: no ScheduleProcess call reads occupancy and returns while another
\* call is between its own reading of occupancy and its return.
C12_DecisionsSerialized ==
    /\ ret.proc # NoProc
    /\ ret.kind \in {"placement", "unknown", "spill"} \/ ReadsHostRam(ret.proc)
    => \A q \in Procs \ {ret.proc} : ~InDecision(q)

-----------------------------------------------------------------------------
(* Rejection for VRAM (SpecDecide) *)

DecIdleOn(g) == SelectSeq(DecOccupants(g), LAMBDA r : r.inflight = 0)
DecBusyOn(g) == \E i \in 1..Len(DecOccupants(g)) : DecOccupants(g)[i].inflight > 0
DecReclaimable(g) == decIn.gpus[DecFree(g)].FreeMB + VramOf(DecIdleOn(g))

DecExclusiveOn(g) ==
    decIn.process.excl \/ \E i \in 1..Len(DecOccupants(g)) : DecOccupants(g)[i].excl

DecRejected == decOut.d.res = ErrInsufficientVRAM

\* Nothing is to be stopped and no GPU is given to the candidate.
DecNoEffect == decOut.d.evict = <<>> /\ decOut.d.chosen = NoCand

\* C13 as stated: InsufficientVRAM exactly when every GPU has an occupant of
\* unknown VRAM or has free MB plus the VRAM of its idle occupants below the
\* requirement; a rejection stops nobody and assigns nothing.
C13_AsStated ==
    decOut.done =>
        /\ DecRejected <=>
               \A g \in GPUs : DecUnknownOn(g) \/ DecReclaimable(g) < decIn.process.vram
        /\ DecRejected => DecNoEffect

\* C13: the same, with a third way for a GPU to be unfit: the candidate or
\* an occupant is GroupExclusive and an occupant is busy.
C13_InsufficientVRAMExactly ==
    decOut.done =>
        /\ DecRejected <=>
               \A g \in GPUs : \/ DecUnknownOn(g)
                               \/ DecReclaimable(g) < decIn.process.vram
                               \/ DecExclusiveOn(g) /\ DecBusyOn(g)
        /\ DecRejected => DecNoEffect

\* A rejection although the VRAM of a busy occupant would make room.
C13_Witness ==
    /\ decOut.done /\ DecRejected /\ ~decIn.process.excl
    /\ \E g \in GPUs :
           /\ ~DecUnknownOn(g) /\ DecBusyOn(g)
           /\ decIn.gpus[DecFree(g)].FreeMB + VramOf(DecOccupants(g)) >= decIn.process.vram

-----------------------------------------------------------------------------
(* Host RAM admission (Spec) *)

\* The processes provider() lists that are not spill.
HostRamAccounted == SelectSeq(Provider, LAMBDA r : r.policy # PolicySpill)

HostRamExceeded(p) ==
    /\ cfg.hostRamCapMB > 0
    /\ FitPolicy(p) # PolicySpill
    /\ MeasuredCpuMB(p) > 0
    /\ \A i \in 1..Len(HostRamAccounted) : HostRamAccounted[i].cpu > 0
    /\ SumSeq(HostRamAccounted, LAMBDA r : r.cpu) + MeasuredCpuMB(p) > cfg.hostRamCapMB

-----------------------------------------------------------------------------
(* The fit policies other than evict_to_fit with known VRAM (Spec) *)

C16_CpuMoePlacedLikeEvictToFit ==
    [][ret'.proc # NoProc /\ FitPolicy(ret'.proc) = PolicyCpuMoe /\ ret'.res = ErrNone =>
          IF MeasuredVramMB(ret'.proc) > 0
          THEN /\ assignedGPU'[ret'.proc] \in GPUs
               /\ runtimeEnv'[ret'.proc] = <<assignedGPU'[ret'.proc]>>
          ELSE /\ state' = state
               /\ assignedGPU' = assignedGPU /\ runtimeEnv' = runtimeEnv]_vars

\* The GPU of the inventory gpus with the most free MB, the first one on a tie.
FirstMaxFree(gpus) ==
    CHOOSE i \in 1..Len(gpus) :
        /\ \A j \in 1..Len(gpus) : gpus[j].FreeMB <= gpus[i].FreeMB
        /\ \A j \in 1..(i - 1) : gpus[j].FreeMB < gpus[i].FreeMB

UnknownVramCall(p) == p # NoProc /\ FitPolicy(p) = PolicyEvict /\ MeasuredVramMB(p) = 0

PlacedOnMaxFree(p) ==
    LET g == ret'.d.gpus[FirstMaxFree(ret'.d.gpus)].Index
    IN  /\ ret'.res = ErrNone
        /\ assignedGPU' = [assignedGPU EXCEPT ![p] = g]
        /\ runtimeEnv' = [runtimeEnv EXCEPT ![p] = <<g>>]
        /\ state' = state

\* C17 as stated: every ScheduleProcess call on an evict_to_fit candidate
\* with measured VRAM 0 returns OK with the candidate on the GPU with the
\* most capped free MB (the first on a tie), and stops nobody.
C17_AsStated ==
    [][UnknownVramCall(ret'.proc) => PlacedOnMaxFree(ret'.proc)]_vars

\* C17: the same for the calls that host-RAM admission lets through.
C17_UnknownVramGetsMaxFree ==
    [][UnknownVramCall(ret'.proc) /\ ret'.res # ErrInsufficientHostRAM
          => PlacedOnMaxFree(ret'.proc)]_vars

\* A candidate with unknown VRAM was given the first of two GPUs with equal
\* free MB, one of them occupied.
C17_Witness ==
    /\ UnknownVramCall(ret.proc) /\ ret.res = ErrNone
    /\ ret.d.gpus[1].FreeMB = ret.d.gpus[2].FreeMB
    /\ assignedGPU[ret.proc] = ret.d.gpus[1].Index
    /\ \E q \in Procs \ {ret.proc} : UsesCapacity(q) /\ assignedGPU[q] \in GPUs

\* A candidate with unknown VRAM was given the second GPU.
C17_WitnessSecond ==
    /\ UnknownVramCall(ret.proc) /\ ret.res = ErrNone
    /\ assignedGPU[ret.proc] = ret.d.gpus[2].Index

-----------------------------------------------------------------------------
(* SpecObserve: ObserveLog calls on one tracker, one call after the other. *)
(* SpecObserveConcurrent: the same calls, from two goroutines at once.     *)
(* Get and Set each take the tracker's lock for their own duration, so a   *)
(* call is three steps: parse, Get and merge, Set and return.              *)

Footprints == [VramMB : 0..MaxMB, CpuMB : 0..MaxMB]

ObserveLogParse(w) ==
    /\ obs[w].pc = "call"
    /\ LET r == parseMemoryFromLog(obs[w].line)
       IN  obs' = [obs EXCEPT ![w].footprint = r.fp,
                              ![w].pc = IF r.ok THEN "get" ELSE "done"]
    /\ UNCHANGED <<cfg, footprints, procVars, schedVars, evIn, evOut, decIn, decOut,
                   tracked, mgIn, mgOut, lifeVars>>

\* A call that starts when no other call is under way.
ObserveLogParseAlone(w) ==
    /\ \A u \in Callers \ {w} : obs[u].pc \in {"call", "done"}
    /\ ObserveLogParse(w)

ObserveLogGet(w) ==
    /\ obs[w].pc = "get"
    /\ LET existing == Get(obs[w].signature)
       IN  obs' = [obs EXCEPT ![w].footprint =
                                  IF existing.ok THEN merge(existing.fp, @) ELSE @,
                              ![w].pc = "set"]
    /\ UNCHANGED <<cfg, footprints, procVars, schedVars, evIn, evOut, decIn, decOut,
                   tracked, mgIn, mgOut, lifeVars>>

ObserveLogSet(w) ==
    /\ obs[w].pc = "set"
    /\ tracked' = Set(obs[w].signature, obs[w].footprint)
    /\ obs' = [obs EXCEPT ![w].matched = TRUE, ![w].pc = "done"]
    /\ UNCHANGED <<cfg, footprints, procVars, schedVars, evIn, evOut, decIn, decOut,
                   mgIn, mgOut, lifeVars>>

\* The tracker holds an entry for "s1" or none; "w1" observes a line for
\* "s1", "w2" one for either signature.
InitObserve ==
    /\ cfg = BaseConfig
    /\ QuietInit
    /\ evIn = NoEvIn /\ evOut = NoEvOut /\ decIn = NoDecIn /\ decOut = NoDecOut
    /\ mgIn = NoMgIn /\ mgOut = NoMgOut
    /\ QuietLife
    /\ \E e \in {[fp |-> NoFootprint, ok |-> FALSE]} \cup [fp : Footprints, ok : {TRUE}] :
           tracked = [NoTracked EXCEPT !["s1"] = e]
    /\ \E l1, l2 \in Lines, s2 \in Sigs :
           obs = [w \in Callers |->
                     [pc |-> "call", signature |-> IF w = "w1" THEN "s1" ELSE s2,
                      line |-> IF w = "w1" THEN l1 ELSE l2,
                      footprint |-> NoFootprint, matched |-> FALSE]]

NextObserve ==
    \/ \E w \in Callers : ObserveLogParseAlone(w)
    \/ \E w \in Callers : ObserveLogGet(w)
    \/ \E w \in Callers : ObserveLogSet(w)

SpecObserve == InitObserve /\ [][NextObserve]_vars

NextObserveConcurrent ==
    \/ \E w \in Callers : ObserveLogParse(w)
    \/ \E w \in Callers : ObserveLogGet(w)
    \/ \E w \in Callers : ObserveLogSet(w)

SpecObserveConcurrent == InitObserve /\ [][NextObserveConcurrent]_vars

-----------------------------------------------------------------------------
(* SpecMerge: the merge of ObserveLog on enumerated footprints.            *)

MergeApply ==
    /\ ~mgOut.done
    /\ mgOut' = [done |-> TRUE,
                 left |-> merge(merge(mgIn.A, mgIn.B), mgIn.C),
                 right |-> merge(mgIn.A, merge(mgIn.B, mgIn.C)),
                 zeroNew |-> merge(mgIn.A, NoFootprint),
                 zeroOld |-> merge(NoFootprint, mgIn.A)]
    /\ UNCHANGED <<cfg, footprints, procVars, schedVars, evIn, evOut, decIn, decOut,
                   tracked, obs, mgIn, lifeVars>>

InitMerge ==
    /\ cfg = BaseConfig
    /\ QuietInit
    /\ evIn = NoEvIn /\ evOut = NoEvOut /\ decIn = NoDecIn /\ decOut = NoDecOut
    /\ tracked = NoTracked /\ obs = NoObs
    /\ QuietLife
    /\ mgIn \in [A : Footprints, B : Footprints, C : Footprints]
    /\ mgOut = NoMgOut

NextMerge == MergeApply

SpecMerge == InitMerge /\ [][NextMerge]_vars

-----------------------------------------------------------------------------
(* The tracker's merge (SpecObserve, SpecObserveConcurrent, SpecMerge) *)

Returning(w) == obs[w].pc = "set" /\ obs'[w].pc = "done"

\* What the claim says is stored after a line parsed as p, over the entry prev.
StoredAfter(prev, p) ==
    [VramMB |-> IF p.VramMB # 0 THEN p.VramMB ELSE prev.VramMB,
     CpuMB |-> IF p.CpuMB # 0 THEN p.CpuMB ELSE prev.CpuMB]

VramOnly(w) == obs[w].line.vram > 0 /\ obs[w].line.cpu = 0
CpuOnly(w) == obs[w].line.vram = 0 /\ obs[w].line.cpu > 0

\* Both calls have returned, one for a VRAM-only and one for a CPU-only line
\* of the same signature.
BothObserved(w, u) ==
    /\ w # u /\ obs[w].signature = obs[u].signature
    /\ obs[w].pc = "done" /\ obs[u].pc = "done"
    /\ VramOnly(w) /\ CpuOnly(u)

BothStored(w, u) ==
    tracked[obs[w].signature].fp = [VramMB |-> obs[w].line.vram, CpuMB |-> obs[u].line.cpu]

\* C18: when an ObserveLog call that matched its line returns, the entry of
\* its signature holds the parsed VRAM if that is not 0 and the VRAM stored
\* before otherwise, likewise for the CPU, and the call returns that entry;
\* after a VRAM-only and a CPU-only line for one signature, in either order,
\* the entry holds both figures.
C18_ObserveLogMerges ==
    [][/\ \A w \in Callers : Returning(w) =>
              LET s == obs[w].signature
              IN  /\ tracked'[s].ok
                  /\ tracked'[s].fp =
                         StoredAfter(tracked[s].fp, parseMemoryFromLog(obs[w].line).fp)
                  /\ obs'[w].matched /\ obs'[w].footprint = tracked'[s].fp
                  /\ \A t \in Sigs \ {s} : tracked'[t] = tracked[t]
       /\ \A w, u \in Callers : BothObserved(w, u)' => BothStored(w, u)']_vars

\* A VRAM-only line was observed after a CPU-only line and changed the entry.
C18_Witness ==
    \E w, u \in Callers :
        /\ BothObserved(w, u) /\ BothStored(w, u)
        /\ obs[w].footprint = tracked[obs[w].signature].fp
        /\ obs[u].footprint.VramMB # obs[w].line.vram

\* C19: after two concurrent ObserveLog calls for one signature have returned,
\* one for a VRAM-only line and one for a CPU-only line, the entry holds both
\* observed figures.
C19_NoObservationLost ==
    \A w, u \in Callers : BothObserved(w, u) => BothStored(w, u)

\* C20: merge(merge(A, B), C) = merge(A, merge(B, C)), and merging the zero
\* footprint, as the newer or as the older operand, gives the other operand.
C20_MergeAssociative ==
    mgOut.done =>
        /\ mgOut.left = mgOut.right
        /\ mgOut.zeroNew = mgIn.A /\ mgOut.zeroOld = mgIn.A

\* Three footprints of which each later one replaces one field only.
C20_Witness ==
    /\ mgOut.done
    /\ mgIn.A.VramMB # 0 /\ mgIn.A.CpuMB # 0
    /\ mgIn.B.VramMB # 0 /\ mgIn.B.CpuMB = 0 /\ mgIn.B.VramMB # mgIn.A.VramMB
    /\ mgIn.C.VramMB = 0 /\ mgIn.C.CpuMB # 0 /\ mgIn.C.CpuMB # mgIn.A.CpuMB
    /\ mgOut.left = [VramMB |-> mgIn.B.VramMB, CpuMB |-> mgIn.C.CpuMB]

-----------------------------------------------------------------------------
(* The process life cycle (Spec) *)

-----------------------------------------------------------------------------
(* SpecStart: one Process and the concurrent callers of its start().  The  *)
(* pre-start hook is any function that returns OK with an assignment or an *)
(* error of the scheduler.                                                 *)

MaxStarts == 2

ErrSpawn == "spawn failed"
ErrHealth == "health check failed"
HookErrors == {ErrInsufficientVRAM, ErrInsufficientHostRAM}

\* Variant: the callers that await the outcome are told OK.
Deliver_WaitersOK(res) ==
    [k \in StartCallers |->
        IF startCalls[k].pc = "run" THEN [startCalls[k] EXCEPT !.pc = "done", !.result = res]
        ELSE IF startCalls[k].pc = "wait"
        THEN [startCalls[k] EXCEPT !.pc = "done", !.result = ErrNone]
        ELSE startCalls[k]]

\* The outcome of the start in progress goes to the caller that runs it and
\* to the callers that await it.
Deliver(res) ==
    [k \in StartCallers |->
        IF startCalls[k].pc \in {"run", "wait"}
        THEN [startCalls[k] EXCEPT !.pc = "done", !.result = res]
        ELSE startCalls[k]]

\* Variant: a failed start keeps the GPU and the environment.
Failed_KeepsAssignment(l) ==
    [l EXCEPT !.state = StateStopped, !.child = FALSE,
              !.step = "none", !.runner = NoCaller]

\* Starting -> Stopped on a failure: the assignments are released.
Failed(l) ==
    [l EXCEPT !.state = StateStopped, !.assignedGPU = NoGPU, !.runtimeEnv = <<>>,
              !.child = FALSE, !.step = "none", !.runner = NoCaller]

LifeFrame == UNCHANGED <<cfg, footprints, procVars, schedVars, evIn, evOut, decIn, decOut,
                         tracked, obs, mgIn, mgOut, swap, locks, hub>>

\* A caller enters start(): the first one on a Stopped process performs
\* Stopped -> Starting, one that finds it Starting awaits the outcome, one
\* that finds it Ready returns at once.
CallStart(k) ==
    /\ startCalls[k].pc = "idle"
    /\ \/ /\ life.state = StateStopped /\ life.begun < MaxStarts
          /\ life' = [life EXCEPT !.state = StateStarting, !.step = "hook",
                                  !.runner = k, !.begun = @ + 1]
          /\ startCalls' = [startCalls EXCEPT ![k] =
                               [pc |-> "run", round |-> life.begun + 1, result |-> "none"]]
       \/ /\ life.state = StateStarting
          /\ startCalls' = [startCalls EXCEPT ![k] =
                               [pc |-> "wait", round |-> life.begun, result |-> "none"]]
          /\ UNCHANGED life
       \/ /\ life.state = StateReady
          /\ startCalls' = [startCalls EXCEPT ![k] =
                               [pc |-> "done", round |-> 0, result |-> ErrNone]]
          /\ UNCHANGED life
    /\ LifeFrame

\* The pre-start hook returns OK, having given the process GPU g or none.
StartHookOK(g) ==
    /\ life.step = "hook"
    /\ life' = [life EXCEPT !.hookCalls = @ + 1, !.hookResult = ErrNone,
                            !.assignedGPU = g,
                            !.runtimeEnv = IF g = NoGPU THEN <<>> ELSE <<g>>,
                            !.step = "spawn"]
    /\ UNCHANGED startCalls
    /\ LifeFrame

\* The pre-start hook returns an error: no child, the error goes to the callers.
StartHookError(e) ==
    /\ life.step = "hook"
    /\ life' = [Failed(life) EXCEPT !.hookCalls = @ + 1, !.hookResult = e]
    /\ startCalls' = Deliver(e)
    /\ LifeFrame

StartSpawn ==
    /\ life.step = "spawn"
    /\ life' = [life EXCEPT !.child = TRUE, !.spawns = @ + 1, !.step = "health"]
    /\ UNCHANGED startCalls
    /\ LifeFrame

StartSpawnError ==
    /\ life.step = "spawn"
    /\ life' = Failed(life)
    /\ startCalls' = Deliver(ErrSpawn)
    /\ LifeFrame

\* The health check answers 200: Starting -> Ready.
StartHealthOK ==
    /\ life.step = "health"
    /\ life' = [life EXCEPT !.state = StateReady, !.step = "none", !.runner = NoCaller]
    /\ startCalls' = Deliver(ErrNone)
    /\ LifeFrame

\* The health check fails or times out: the child is killed.
StartHealthFail ==
    /\ life.step = "health"
    /\ life' = Failed(life)
    /\ startCalls' = Deliver(ErrHealth)
    /\ LifeFrame

\* The caller has its answer and may call again.
StartReturn(k) ==
    /\ startCalls[k].pc = "done"
    /\ startCalls' = [startCalls EXCEPT ![k] = [pc |-> "idle", round |-> 0, result |-> "none"]]
    /\ UNCHANGED life
    /\ LifeFrame

\* The process is stopped (Ready -> Stopping -> Stopped); the child is gone.
LifeStopped ==
    /\ life.state = StateReady
    /\ life' = [life EXCEPT !.state = StateStopped, !.child = FALSE]
    /\ UNCHANGED startCalls
    /\ LifeFrame

InitStart ==
    /\ cfg = BaseConfig
    /\ QuietInit
    /\ evIn = NoEvIn /\ evOut = NoEvOut /\ decIn = NoDecIn /\ decOut = NoDecOut
    /\ QuietTracker
    /\ QuietLife

NextStart ==
    \/ \E k \in StartCallers : CallStart(k)
    \/ \E g \in GPUs \cup {NoGPU} : StartHookOK(g)
    \/ \E e \in HookErrors : StartHookError(e)
    \/ StartSpawn
    \/ StartSpawnError
    \/ StartHealthOK
    \/ StartHealthFail
    \/ \E k \in StartCallers : StartReturn(k)
    \/ LifeStopped

SpecStart == InitStart /\ [][NextStart]_vars

-----------------------------------------------------------------------------
(* start(): failures and concurrent callers (SpecStart) *)

StartFailing == life.state = StateStarting /\ life'.state = StateStopped

\* C22: a start() that fails leaves the process Stopped with assignedGPU -1,
\* no runtimeEnv and no child, and ready to be started again; its caller gets
\* an error; when it is the pre-start hook that failed, no child has been
\* spawned and the caller gets the hook's error.
C22_FailedStartReleases ==
    [][StartFailing =>
          /\ life'.assignedGPU = NoGPU /\ life'.runtimeEnv = <<>> /\ ~life'.child
          /\ life'.step = "none" /\ life'.runner = NoCaller
          /\ startCalls'[life.runner].pc = "done"
          /\ startCalls'[life.runner].result # ErrNone
          /\ life.step = "hook" =>
                 /\ life'.spawns = life.spawns
                 /\ life'.hookResult \in HookErrors
                 /\ startCalls'[life.runner].result = life'.hookResult]_vars

\* The process is Ready after its second start, and the caller of the first
\* one still holds the error of the hook.
C22_Witness ==
    /\ life.state = StateReady /\ life.begun = 2 /\ life.assignedGPU # NoGPU
    /\ \E k \in StartCallers :
           /\ startCalls[k].pc = "done" /\ startCalls[k].round = 1
           /\ startCalls[k].result \in HookErrors

InStart(k) == startCalls[k].pc \in {"run", "wait"}

\* C23: while the process is Starting exactly one caller runs the start, and
\* it is the one that performed Stopped -> Starting; the hook has been called
\* once and at most one child spawned per transition; the callers of one
\* start all return in the same step with the same outcome, which is OK
\* exactly when the process has become Ready.
C23_StartCoalesces ==
    [][/\ \A k \in StartCallers :
              InStart(k) /\ startCalls'[k].pc = "done" =>
                  /\ startCalls'[k].result = ErrNone <=> life'.state = StateReady
                  /\ \A j \in StartCallers : InStart(j) =>
                         /\ startCalls'[j].pc = "done"
                         /\ startCalls'[j].result = startCalls'[k].result
       /\ \A k \in StartCallers :
              startCalls'[k].pc = "run" <=> life'.state = StateStarting /\ life'.runner = k
       /\ \A k \in StartCallers : startCalls'[k].pc = "wait" => life'.state = StateStarting
       /\ life'.hookCalls = life'.begun - (IF life'.step = "hook" THEN 1 ELSE 0)
       /\ life'.spawns <= life'.hookCalls
       /\ life'.begun = life.begun + 1 <=>
              life.state = StateStopped /\ life'.state = StateStarting]_vars

\* Two callers of the same start hold the same error.
C23_Witness ==
    \E k, j \in StartCallers :
        /\ k # j /\ startCalls[k].pc = "done" /\ startCalls[j].pc = "done"
        /\ startCalls[k].round = 1 /\ startCalls[j].round = 1
        /\ startCalls[k].result = startCalls[j].result
        /\ startCalls[k].result = ErrHealth
        /\ life.hookCalls = 1 /\ life.spawns = 1

-----------------------------------------------------------------------------
(* SpecStop: one Ready Process, its requests, its idle timer and stop().   *)
(* Time passes in ticks; a request in flight may never finish and the      *)
(* child may never exit on SIGTERM.  life holds the process.               *)

MaxTTL == 2
GraceTicks == 2

Serving(ttl) ==
    [state |-> StateReady, child |-> TRUE, inflight |-> 0,
     idle |-> 0, ttl |-> ttl, stopStep |-> "none", grace |-> 0,
     stopBy |-> "none", signal |-> "none", starts |-> 1]

\* Variant: the timer does not look at the requests in flight.
TTLDue_IgnoresInFlight(l) ==
    l.state = StateReady /\ l.ttl > 0 /\ l.idle >= l.ttl

\* The idle timer fires: unloadAfterSeconds after the last request completed,
\* on a Ready process with no request in flight; 0 disables it.
TTLDue(l) ==
    l.state = StateReady /\ l.inflight = 0 /\ l.ttl > 0 /\ l.idle >= l.ttl

\* Variant: stop() waits for the requests in flight without a deadline.
DrainOver_NoDeadline(l) == l.inflight = 0

\* The wait of stop() for the requests in flight ends.
DrainOver(l) == l.inflight = 0 \/ l.grace = 0

\* Process.stop: Ready -> Stopping, then the wait for the drain.
Stopping(l, by) ==
    [l EXCEPT !.state = StateStopping, !.stopStep = "drain", !.grace = GraceTicks,
              !.stopBy = by]

\* Stopping -> Stopped: the child is gone.
StoppedBy(l, sig) ==
    [l EXCEPT !.state = StateStopped, !.child = FALSE, !.stopStep = "none",
              !.grace = 0, !.signal = sig]

StopFrame == UNCHANGED <<cfg, footprints, procVars, schedVars, evIn, evOut, decIn, decOut,
                         tracked, obs, mgIn, mgOut, startCalls, swap, locks, hub>>

\* ProxyRequest enters on the Ready process.
ServeEnter ==
    /\ life.state = StateReady /\ life.inflight < MaxInFlight
    /\ life' = [life EXCEPT !.inflight = @ + 1]
    /\ StopFrame

\* ProxyRequest returns: the idle period starts again.
ServeDone ==
    /\ life.inflight > 0
    /\ life' = [life EXCEPT !.inflight = @ - 1, !.idle = 0]
    /\ StopFrame

\* One second passes.
ServeTick ==
    /\ \/ life.state = StateReady /\ life.idle < life.ttl
       \/ life.state = StateStopping /\ life.grace > 0
    /\ life' = [life EXCEPT
                   !.idle = IF life.state = StateReady /\ @ < life.ttl THEN @ + 1 ELSE @,
                   !.grace = IF life.state = StateStopping /\ @ > 0 THEN @ - 1 ELSE @]
    /\ StopFrame

\* The idle timer calls stop().
TTLFire ==
    /\ TTLDue(life)
    /\ life' = Stopping(life, "ttl")
    /\ StopFrame

\* stop() is called from outside.
StopCall ==
    /\ life.state = StateReady
    /\ life' = Stopping(life, "call")
    /\ StopFrame

\* The drain is over or the grace period has run out: SIGTERM.
StopTerm ==
    /\ life.stopStep = "drain" /\ DrainOver(life)
    /\ life' = [life EXCEPT !.stopStep = "term", !.grace = GraceTicks, !.signal = "SIGTERM"]
    /\ StopFrame

\* The child exits on SIGTERM.
StopChildExit ==
    /\ life.stopStep = "term"
    /\ life' = StoppedBy(life, "SIGTERM")
    /\ StopFrame

\* The second grace window has run out: SIGKILL.
StopKill ==
    /\ life.stopStep = "term" /\ life.grace = 0
    /\ life' = StoppedBy(life, "SIGKILL")
    /\ StopFrame

\* The next request starts the process again.
ServeRestart ==
    /\ life.state = StateStopped /\ life.starts < MaxStarts
    /\ life' = [Serving(life.ttl) EXCEPT !.inflight = life.inflight,
                                         !.starts = life.starts + 1]
    /\ StopFrame

InitStop ==
    /\ cfg = BaseConfig
    /\ QuietInit
    /\ evIn = NoEvIn /\ evOut = NoEvOut /\ decIn = NoDecIn /\ decOut = NoDecOut
    /\ QuietTracker
    /\ startCalls = NoStartCalls /\ swap = NoSwap /\ locks = NoLocks /\ hub = NoHub
    /\ life \in {Serving(ttl) : ttl \in {0, MaxTTL}}

NextStop ==
    \/ ServeEnter
    \/ ServeDone
    \/ ServeTick
    \/ TTLFire
    \/ StopCall
    \/ StopTerm
    \/ StopChildExit
    \/ StopKill
    \/ ServeRestart

SpecStop == InitStop /\ [][NextStop]_vars

\* The clock, the goroutine of stop() and its timers run; nothing makes a
\* request return or the child exit on SIGTERM.
SpecStopFair ==
    /\ SpecStop
    /\ WF_vars(ServeTick) /\ WF_vars(StopTerm) /\ WF_vars(StopKill)

-----------------------------------------------------------------------------
(* stop() and the idle timer (SpecStop, SpecStopFair) *)

\* C24: a process that is Stopping becomes Stopped, whether or not its
\* requests in flight ever return; it leaves Ready for Stopping only, is
\* sent SIGTERM only once the requests have drained or the grace period has
\* run out, and SIGKILL only once the second grace window has run out.
C24_StopTerminates ==
    /\ (life.state = StateStopping) ~> (life.state = StateStopped)
    /\ [][/\ life.state = StateReady /\ life'.state # StateReady
                 => life'.state = StateStopping /\ life'.grace = GraceTicks
          /\ life.stopStep = "drain" /\ life'.stopStep = "term"
                 => (life.inflight = 0 \/ life.grace = 0) /\ life'.grace = GraceTicks
          /\ life.state = StateStopping /\ life'.state # StateStopping
                 => /\ life'.state = StateStopped /\ ~life'.child
                    /\ life.stopStep = "term"
                    /\ life'.signal = "SIGKILL" => life.grace = 0]_vars

\* The process was killed and is Stopped while a request is still in flight.
C24_Witness ==
    /\ life.state = StateStopped /\ life.signal = "SIGKILL" /\ life.inflight > 0
    /\ life.stopBy = "call"

\* C25: the idle timer calls stop() only on a Ready process with no request
\* in flight, a non-zero unloadAfterSeconds and that many seconds since the
\* last request returned; a returning request starts the idle period again.
C25_TTLOnlyWhenIdle ==
    [][/\ life.state = StateReady /\ life'.state = StateStopping /\ life'.stopBy = "ttl"
              => /\ life.inflight = 0
                 /\ life.ttl > 0
                 /\ life.idle = life.ttl
       /\ life'.inflight < life.inflight => life'.idle = 0
       /\ life'.idle > life.idle => life'.idle = life.idle + 1 /\ life'.inflight = life.inflight
       /\ life'.inflight > life.inflight => life'.idle = life.idle]_vars

\* The timer has stopped the process after a request had returned.
C25_Witness ==
    /\ life.stopBy = "ttl" /\ life.state = StateStopping
    /\ life.idle = life.ttl /\ life.inflight = 0 /\ life.starts = 2

-----------------------------------------------------------------------------
(* SpecSwap: concurrent requests that go through swapProcessGroup, each    *)
(* for the one model of some group.                                        *)

\* Variant: the swap mutex is not waited for.
SwapMutexFree_Always(d) == TRUE

SwapMutexFree(d) == swap.mu[d] = NoSwapCall

\* Variant: the other groups are stopped even when the group is active.
AlreadyActive_Never(g) == FALSE

AlreadyActive(g) == swap.active[Domain(g)] = g

\* stopAll(immediate) on the other groups of the domain of g.
OthersStopped(g) ==
    [h \in Groups |-> IF h # g /\ Domain(h) = Domain(g) THEN FALSE ELSE swap.ready[h]]

SwapFrame == UNCHANGED <<cfg, footprints, procVars, schedVars, evIn, evOut, decIn, decOut,
                         tracked, obs, mgIn, mgOut, life, startCalls, locks, hub>>

\* A request for the model of group g arrives.
SwapCall(r, g) ==
    /\ swap.call[r].pc = "idle"
    /\ swap' = [swap EXCEPT !.call[r] = [pc |-> "lock", group |-> g]]
    /\ SwapFrame

\* The call takes the swap mutex of the domain.
SwapLock(r) ==
    /\ swap.call[r].pc = "lock"
    /\ SwapMutexFree(Domain(swap.call[r].group))
    /\ swap' = [swap EXCEPT !.mu[Domain(swap.call[r].group)] = r,
                            !.call[r].pc = "swap"]
    /\ SwapFrame

\* swapProcessGroup: nothing to do for the active group; else the other
\* groups of the domain are stopped and the group becomes the active one.
SwapGroups(r) ==
    /\ swap.call[r].pc = "swap"
    /\ LET g == swap.call[r].group
       IN  swap' = [swap EXCEPT
                       !.ready = IF AlreadyActive(g) THEN @ ELSE OthersStopped(g),
                       !.active[Domain(g)] = g,
                       !.call[r].pc = "unlock"]
    /\ SwapFrame

SwapUnlock(r) ==
    /\ swap.call[r].pc = "unlock"
    /\ swap' = [swap EXCEPT !.mu[Domain(swap.call[r].group)] = NoSwapCall,
                            !.call[r].pc = "start"]
    /\ SwapFrame

\* The group starts its member for the request; the request is served.
SwapServe(r) ==
    /\ swap.call[r].pc = "start"
    /\ swap' = [swap EXCEPT !.ready[swap.call[r].group] = TRUE,
                            !.call[r] = [pc |-> "idle", group |-> NoGroup]]
    /\ SwapFrame

InitSwap ==
    /\ cfg = BaseConfig
    /\ QuietInit
    /\ evIn = NoEvIn /\ evOut = NoEvOut /\ decIn = NoDecIn /\ decOut = NoDecOut
    /\ QuietTracker
    /\ QuietLife

NextSwap ==
    \/ \E r \in SwapCalls, g \in Groups : SwapCall(r, g)
    \/ \E r \in SwapCalls : SwapLock(r)
    \/ \E r \in SwapCalls : SwapGroups(r)
    \/ \E r \in SwapCalls : SwapUnlock(r)
    \/ \E r \in SwapCalls : SwapServe(r)

SpecSwap == InitSwap /\ [][NextSwap]_vars

-----------------------------------------------------------------------------
(* swapProcessGroup (SpecSwap) *)

InSwap(r) == swap.call[r].pc \in {"swap", "unlock"}

\* C26: no two calls are inside swapProcessGroup for groups of one domain at
\* a time; a swap to the group that is already active stops no process, and
\* any swap leaves the groups of the other domains alone.
C26_SwapsSerialized ==
    [][/\ \A r, q \in SwapCalls :
              r # q /\ InSwap(r)' /\ InSwap(q)' =>
                  Domain(swap'.call[r].group) # Domain(swap'.call[q].group)
       /\ \A r \in SwapCalls :
              swap.call[r].pc = "swap" /\ swap'.call[r].pc = "unlock" =>
                  LET g == swap.call[r].group
                  IN  /\ swap.active[Domain(g)] = g => swap'.ready = swap.ready
                      /\ \A h \in Groups :
                             Domain(h) # Domain(g) \/ h = g => swap'.ready[h] = swap.ready[h]
                      /\ swap'.active[Domain(g)] = g]_vars

\* A call waits for the swap mutex held by a swap to the other group of the
\* domain, while the group of the other domain is ready.
C26_Witness ==
    \E r, q \in SwapCalls :
        /\ swap.call[r].pc = "unlock" /\ swap.call[r].group = "g1" /\ ~swap.ready["g2"]
        /\ swap.call[q].pc = "lock" /\ swap.call[q].group = "g2"
        /\ swap.ready["g1"] /\ swap.ready["g3"]

\* C27: no GPU index is the assignedGPU of two processes that are Ready or
\* Starting.
C27_OneProcessPerGPU ==
    \A p, q \in Procs :
        /\ p # q
        /\ state[p] \in {StateReady, StateStarting}
        /\ state[q] \in {StateReady, StateStarting}
        /\ assignedGPU[p] # NoGPU
        => assignedGPU[p] # assignedGPU[q]

\* C28: an occupant the scheduler stops has no request in flight at the
\* moment of the stop.
C28_BusyNeverKilled ==
    [][\A p \in Procs :
          pc[p] = "evict" /\ sched.evict # <<>> /\ sched'.evict = Tail(sched.evict)
          /\ state[Head(sched.evict)] # state'[Head(sched.evict)]
          => inFlight[Head(sched.evict)] = 0]_vars

\* C29: every process of an eviction plan is Ready when the plan is chosen,
\* and is Ready when StopImmediately is called on it.
C29_PlanOnlyReady ==
    [][\A p \in Procs :
          /\ pc[p] = "lock" /\ pc'[p] = "evict"
                => \A i \in 1..Len(sched'.evict) : state[sched'.evict[i]] = StateReady
          /\ pc[p] = "evict" /\ sched.evict # <<>> /\ sched'.evict = Tail(sched.evict)
                => state[Head(sched.evict)] = StateReady]_vars

OthersOn(d, g) ==
    {i \in 1..Len(d.running) :
        /\ d.running[i].id # d.proc
        /\ d.running[i].gpu = g
        /\ processUsesSchedulerCapacity(d.running[i])}

SelfFree(d) ==
    d.proc # NoProc =>
        /\ \A i \in 1..Len(d.evict) : d.evict[i] # d.proc
        /\ \A i \in 1..Len(d.cands) :
              /\ d.cands[i].assigned = Cardinality(OthersOn(d, d.cands[i].gpuIndex))
              /\ \A j \in 1..Len(d.cands[i].evict) : d.cands[i].evict[j].id # d.proc

\* C30: in every decision of ScheduleProcess the candidate is no occupant of
\* any GPU (the occupants counted are other processes) and is in no eviction
\* plan, its own included.
C30_CandidateNotOccupant == SelfFree(sched) /\ SelfFree(ret.d)

-----------------------------------------------------------------------------
(* Host RAM admission, occupancy and frame of ScheduleProcess (Spec) *)

AloneOnHostRam(p) ==
    \A q \in Procs \ {p} : FitPolicy(q) = PolicySpill \/ ~UsesCapacity(q)

\* C31: a ScheduleProcess call on a candidate that is not spill, whose CPU MB
\* is known and at most the cap, is not rejected for host RAM when no other
\* non-spill process is Ready or Starting.
C31_HostRamCountsOthersRunning ==
    [][\A p \in Procs :
          /\ ret'.proc = p
          /\ FitPolicy(p) # PolicySpill
          /\ MeasuredCpuMB(p) > 0 /\ MeasuredCpuMB(p) <= cfg.hostRamCapMB
          /\ AloneOnHostRam(p)
          => ret'.res # ErrInsufficientHostRAM]_vars

-----------------------------------------------------------------------------
(* SpecLocks: threads that serve requests (swapProcessGroup, then start    *)
(* with the pre-start hook), unload models and stop groups, with the       *)
(* scheduler mutex, the swap mutex and the group locks they take.          *)

StopStrategies == {"StopImmediately", "StopWaitForInflightRequest"}

\* Variant: a stop of a Starting process waits for its start to end.
StopReturns_AfterStart(m) == locks.state[m] # StateStarting

\* Process.StopImmediately and Process.Stop take no lock and wait for no
\* start: on a process that is not Ready they return at once.
StopReturns(m) == TRUE

LockFrame == UNCHANGED <<cfg, footprints, procVars, schedVars, evIn, evOut, decIn, decOut,
                         tracked, obs, mgIn, mgOut, life, startCalls, swap, hub>>

Thread(t) == locks.th[t]

\* A request for model m arrives on thread t.
LkRequest(t, m) ==
    /\ Thread(t).pc = "idle"
    /\ locks' = [locks EXCEPT !.th[t] = [IdleThread EXCEPT !.op = "request", !.pc = "swapLock",
                                                           !.model = m, !.group = GroupOf(m)]]
    /\ LockFrame

\* swapProcessGroup: the swap mutex.
LkSwapLock(t) ==
    /\ Thread(t).pc = "swapLock"
    /\ locks.swapMu = NoThread
    /\ locks' = [locks EXCEPT !.swapMu = t,
                              !.th[t].pc = IF locks.active = Thread(t).group
                                           THEN "swapUnlock" ELSE "othersLock"]
    /\ LockFrame

\* swapProcessGroup: StopProcesses(StopImmediately) on the other group takes
\* that group's lock.
LkOthersLock(t) ==
    /\ Thread(t).pc = "othersLock"
    /\ \E g \in ModelGroups \ {Thread(t).group} :
          /\ locks.pgMu[g] = NoThread
          /\ locks' = [locks EXCEPT !.pgMu[g] = t, !.th[t].pc = "othersStop"]
    /\ LockFrame

\* The members' StopImmediately calls, wg.Wait and the deferred unlock.
LkOthersStop(t) ==
    /\ Thread(t).pc = "othersStop"
    /\ \E g \in ModelGroups \ {Thread(t).group} :
          /\ locks.pgMu[g] = t
          /\ \A m \in Members(g) : StopReturns(m)
          /\ locks' = [locks EXCEPT
                          !.state = [m \in Models |-> IF m \in Members(g)
                                                      THEN AfterStopImmediately(locks.state[m])
                                                      ELSE locks.state[m]],
                          !.pgMu[g] = NoThread,
                          !.th[t].pc = "swapUnlock"]
    /\ LockFrame

\* The group is the active one; the swap mutex is released before start().
LkSwapUnlock(t) ==
    /\ Thread(t).pc = "swapUnlock"
    /\ locks' = [locks EXCEPT !.active = Thread(t).group,
                              !.swapMu = NoThread,
                              !.th[t].pc = "start"]
    /\ LockFrame

\* Process.ProxyRequest: a Stopped process is started by this thread, a
\* Starting one is awaited, a Ready one serves, a Stopping one refuses.
LkStart(t) ==
    /\ Thread(t).pc = "start"
    /\ LET m == Thread(t).model
       IN  locks' = [locks EXCEPT
                        !.state[m] = IF @ = StateStopped THEN StateStarting ELSE @,
                        !.th[t] = IF locks.state[m] = StateStopped THEN [@ EXCEPT !.pc = "hookLock"]
                                  ELSE IF locks.state[m] = StateStarting THEN [@ EXCEPT !.pc = "await"]
                                  ELSE IdleThread]
    /\ LockFrame

\* The start another thread runs has ended.
LkAwait(t) ==
    /\ Thread(t).pc = "await"
    /\ locks.state[Thread(t).model] # StateStarting
    /\ locks' = [locks EXCEPT !.th[t] = IdleThread]
    /\ LockFrame

\* ScheduleProcess: s.mu.Lock(), then the candidates and the chosen plan,
\* some of the processes that are Ready or Starting.
LkHookLock(t) ==
    /\ Thread(t).pc = "hookLock"
    /\ locks.mu = NoThread
    /\ \E plan \in SUBSET {m \in Models : locks.state[m] \in {StateReady, StateStarting}} :
          locks' = [locks EXCEPT !.mu = t, !.th[t].pc = "sched", !.th[t].plan = plan]
    /\ LockFrame

\* ScheduleProcess: evicted.StopImmediately() under s.mu.
LkEvict(t) ==
    /\ Thread(t).pc = "sched"
    /\ \E m \in Thread(t).plan :
          /\ StopReturns(m)
          /\ locks' = [locks EXCEPT !.state[m] = AfterStopImmediately(@),
                                    !.th[t].plan = @ \ {m}]
    /\ LockFrame

\* ScheduleProcess returns (deferred s.mu.Unlock()): nil, or an error that
\* aborts the start.
LkCommit(t) ==
    /\ Thread(t).pc = "sched" /\ Thread(t).plan = {}
    /\ \E ok \in BOOLEAN :
          locks' = [locks EXCEPT
                       !.mu = NoThread,
                       !.state[Thread(t).model] = IF ~ok /\ @ = StateStarting THEN StateStopped ELSE @,
                       !.th[t] = IF ok THEN [@ EXCEPT !.pc = "health"] ELSE IdleThread]
    /\ LockFrame

\* The child is spawned and the health check ends: Ready, or Stopped.
LkHealth(t) ==
    /\ Thread(t).pc = "health"
    /\ \E ok \in BOOLEAN :
          locks' = [locks EXCEPT
                       !.state[Thread(t).model] = IF @ = StateStarting
                                                  THEN (IF ok THEN StateReady ELSE StateStopped)
                                                  ELSE @,
                       !.th[t] = IdleThread]
    /\ LockFrame

\* apiUnloadSingleModelHandler: process.StopImmediately(), no lock.
LkUnload(t, m) ==
    /\ Thread(t).pc = "idle"
    /\ locks' = [locks EXCEPT !.th[t] = [IdleThread EXCEPT !.op = "unload", !.pc = "unload", !.model = m]]
    /\ LockFrame

LkUnloadStop(t) ==
    /\ Thread(t).pc = "unload"
    /\ StopReturns(Thread(t).model)
    /\ locks' = [locks EXCEPT !.state[Thread(t).model] = AfterStopImmediately(@),
                              !.th[t] = IdleThread]
    /\ LockFrame

\* ProcessGroup.StopProcesses(strategy) is called on group g.
LkStopAll(t, g, strategy) ==
    /\ Thread(t).pc = "idle"
    /\ locks' = [locks EXCEPT !.th[t] = [IdleThread EXCEPT !.op = "stopAll", !.pc = "pgLock",
                                                           !.group = g, !.strategy = strategy]]
    /\ LockFrame

\* pg.Lock()
LkPgLock(t) ==
    /\ Thread(t).pc = "pgLock"
    /\ locks.pgMu[Thread(t).group] = NoThread
    /\ locks' = [locks EXCEPT !.pgMu[Thread(t).group] = t, !.th[t].pc = "stopMembers"]
    /\ LockFrame

\* The members' stop calls begin: StopImmediately kills a Ready member at
\* once, Stop moves it to Stopping.
LkStopMembers(t) ==
    /\ Thread(t).pc = "stopMembers"
    /\ \A m \in Members(Thread(t).group) : StopReturns(m)
    /\ locks' = [locks EXCEPT
                    !.state = [m \in Models |->
                                  IF m \notin Members(Thread(t).group) \/ locks.state[m] # StateReady
                                  THEN locks.state[m]
                                  ELSE IF Thread(t).strategy = "StopImmediately"
                                       THEN StateStopped ELSE StateStopping],
                    !.th[t].plan = {m \in Members(Thread(t).group) :
                                       locks.state[m] = StateReady /\ Thread(t).strategy # "StopImmediately"},
                    !.th[t].pc = "drain"]
    /\ LockFrame

\* wg.Wait(): the graceful stops this call began end (drained or killed);
\* then the deferred pg.Unlock().
LkDrain(t) ==
    /\ Thread(t).pc = "drain"
    /\ locks' = [locks EXCEPT
                    !.state = [m \in Models |-> IF m \in Thread(t).plan /\ locks.state[m] = StateStopping
                                                THEN StateStopped ELSE locks.state[m]],
                    !.pgMu[Thread(t).group] = NoThread,
                    !.th[t] = IdleThread]
    /\ LockFrame

\* The steps of thread t inside a call.
LkStep(t) ==
    \/ LkSwapLock(t) \/ LkOthersLock(t) \/ LkOthersStop(t) \/ LkSwapUnlock(t)
    \/ LkStart(t) \/ LkAwait(t) \/ LkHookLock(t) \/ LkEvict(t) \/ LkCommit(t) \/ LkHealth(t)
    \/ LkUnloadStop(t) \/ LkPgLock(t) \/ LkStopMembers(t) \/ LkDrain(t)

InitLocks ==
    /\ cfg = BaseConfig
    /\ QuietInit
    /\ evIn = NoEvIn /\ evOut = NoEvOut /\ decIn = NoDecIn /\ decOut = NoDecOut
    /\ QuietTracker
    /\ QuietLife

NextLocks ==
    \/ \E t \in Threads, m \in Models : LkRequest(t, m)
    \/ \E t \in Threads, m \in Models : LkUnload(t, m)
    \/ \E t \in Threads, g \in ModelGroups, s \in StopStrategies : LkStopAll(t, g, s)
    \/ \E t \in Threads : LkSwapLock(t)
    \/ \E t \in Threads : LkOthersLock(t)
    \/ \E t \in Threads : LkOthersStop(t)
    \/ \E t \in Threads : LkSwapUnlock(t)
    \/ \E t \in Threads : LkStart(t)
    \/ \E t \in Threads : LkAwait(t)
    \/ \E t \in Threads : LkHookLock(t)
    \/ \E t \in Threads : LkEvict(t)
    \/ \E t \in Threads : LkCommit(t)
    \/ \E t \in Threads : LkHealth(t)
    \/ \E t \in Threads : LkUnloadStop(t)
    \/ \E t \in Threads : LkPgLock(t)
    \/ \E t \in Threads : LkStopMembers(t)
    \/ \E t \in Threads : LkDrain(t)

SpecLocks == InitLocks /\ [][NextLocks]_vars

\* Goroutines are scheduled, and a goroutine that waits for a sync.Mutex
\* gets it (starvation mode hands the mutex to the longest waiter).
SpecLocksFair == SpecLocks /\ \A t \in Threads : SF_vars(LkStep(t))

-----------------------------------------------------------------------------
(* Deadlock freedom (SpecLocksFair) *)

\* The threads that hold a lock thread t waits for.
WaitsFor(t) ==
    {u \in Threads \ {t} :
        \/ Thread(t).pc = "swapLock" /\ locks.swapMu = u
        \/ Thread(t).pc = "hookLock" /\ locks.mu = u
        \/ Thread(t).pc = "pgLock" /\ locks.pgMu[Thread(t).group] = u
        \/ Thread(t).pc = "othersLock" /\ \A g \in ModelGroups \ {Thread(t).group} : locks.pgMu[g] = u}

InScheduleProcess(t) == Thread(t).pc \in {"hookLock", "sched"}

PlanOf(d) == {d.chosen.evict[i].id : i \in 1..Len(d.chosen.evict)}

EvictStep ==
    \E p \in Procs : /\ pc[p] = "evict" /\ mu = p
                     /\ sched.evict # <<>> /\ sched'.evict = Tail(sched.evict)

\* C33: a ScheduleProcess call that returns OK has stopped exactly the
\* processes of the chosen GPU's plan; its steps change the state of no
\* other process, and no assignedGPU or runtimeEnv but the candidate's.
C33_StopsExactlyThePlan ==
    [][/\ ret'.proc # NoProc /\ ret'.res = ErrNone =>
              /\ ret'.d.stopped = PlanOf(ret'.d)
              /\ state' = state
              /\ \A q \in Procs \ {ret'.proc} :
                     assignedGPU'[q] = assignedGPU[q] /\ runtimeEnv'[q] = runtimeEnv[q]
       /\ EvictStep =>
              /\ \A q \in Procs : state'[q] # state[q] =>
                     q = Head(sched.evict) /\ q \in PlanOf(sched)
              /\ assignedGPU' = assignedGPU /\ runtimeEnv' = runtimeEnv]_vars

OccupantsOfChosen(d) == processesOnGPU(d.running, d.chosen.gpuIndex)

ExclusiveAlone ==
    \A p, q \in Procs :
        /\ p # q /\ GroupExclusive(p)
        /\ UsesCapacity(p) /\ UsesCapacity(q)
        /\ assignedGPU[p] # NoGPU
        => assignedGPU[p] # assignedGPU[q]

\* C34: a GroupExclusive candidate is placed only on a GPU whose occupants
\* are all idle and all in the plan; a candidate is placed on a GPU with a
\* GroupExclusive occupant only with all its occupants in the plan; and when
\* a ScheduleProcess call has returned OK, no GroupExclusive process that is
\* Ready or Starting has another Ready or Starting process on its GPU.
C34_ExclusiveNeverShares ==
    [][ret'.proc # NoProc /\ ret'.res = ErrNone =>
          /\ ret'.kind = "placement"
             /\ (GroupExclusive(ret'.proc) \/ hasExclusiveProcess(OccupantsOfChosen(ret'.d)))
                => /\ \A i \in 1..Len(OccupantsOfChosen(ret'.d)) :
                          OccupantsOfChosen(ret'.d)[i].inflight = 0
                   /\ Ids(ret'.d.chosen.evict) = Ids(OccupantsOfChosen(ret'.d))
          /\ ExclusiveAlone']_vars

-----------------------------------------------------------------------------
(* SpecCaps: applyVramCaps on one inventory under one setting of the caps *)

CapIndices == {0, 1, 2}

\* gpuVramCapsMB: up to two entries, 0 for "no cap for this index".
CapLists == {<<>>} \cup [1..1 -> 0..MaxMB] \cup [1..2 -> 0..MaxMB]

\* What the allocator may report for one GPU.
GPUInfos == [Index : CapIndices, FreeMB : 0..MaxMB, TotalMB : 0..MaxMB]

CapInventories ==
    [1..1 -> GPUInfos] \cup {inv \in [1..2 -> GPUInfos] : inv[1].Index # inv[2].Index}

CapsApply ==
    /\ ~decOut.done
    /\ decOut' = [done |-> TRUE, d |-> [NoSched EXCEPT !.gpus = applyVramCaps(decIn.gpus)]]
    /\ UNCHANGED <<cfg, footprints, procVars, schedVars, evIn, evOut, decIn, trVars>>

InitCaps ==
    /\ \E caps \in CapLists, cap \in 0..MaxMB :
          cfg = [BaseConfig EXCEPT !.gpuVramCapsMB = caps, !.gpuVramCapMB = cap]
    /\ QuietInit
    /\ evIn = NoEvIn
    /\ evOut = NoEvOut
    /\ \E inv \in CapInventories : decIn = [NoDecIn EXCEPT !.gpus = inv]
    /\ decOut = NoDecOut
    /\ QuietTracker
    /\ QuietLife

NextCaps == CapsApply

SpecCaps == InitCaps /\ [][NextCaps]_vars

-----------------------------------------------------------------------------
(* applyVramCaps (SpecCaps) *)

Least(x, y) == IF x < y THEN x ELSE y

\* The cap that applies to the GPU with this index: its own entry of
\* gpuVramCapsMB when there is one and it is not 0, else the global cap.
CapFor(index) ==
    IF (index + 1) \in DOMAIN cfg.gpuVramCapsMB /\ cfg.gpuVramCapsMB[index + 1] # 0
    THEN cfg.gpuVramCapsMB[index + 1]
    ELSE cfg.gpuVramCapMB

\* C35: applyVramCaps returns as many GPUs as it was given, in the same order
\* and with the same indices; a GPU whose cap is 0 is returned unchanged; a
\* GPU with a cap > 0 has totalMB = min(totalMB, cap) and freeMB =
\* min(freeMB, cap) limited to the new totalMB, so freeMB <= totalMB <= cap.
C35_CapsClamp ==
    decOut.done =>
        LET in == decIn.gpus
            out == decOut.d.gpus
        IN  /\ Len(out) = Len(in)
            /\ \A i \in 1..Len(in) :
                  /\ out[i].Index = in[i].Index
                  /\ IF CapFor(in[i].Index) > 0
                     THEN /\ out[i].TotalMB = Least(in[i].TotalMB, CapFor(in[i].Index))
                          /\ out[i].FreeMB = Least(Least(in[i].FreeMB, CapFor(in[i].Index)), out[i].TotalMB)
                          /\ out[i].FreeMB <= out[i].TotalMB
                          /\ out[i].TotalMB <= CapFor(in[i].Index)
                     ELSE out[i] = in[i]

\* GPU 1, listed first, is clamped by its own cap; GPU 2, which has no entry
\* in the list, by the global cap.
C35_Witness ==
    /\ decOut.done
    /\ Len(decIn.gpus) = 2
    /\ decIn.gpus[1].Index = 1 /\ decIn.gpus[2].Index = 2
    /\ cfg.gpuVramCapsMB = <<0, 1>> /\ cfg.gpuVramCapMB = 2
    /\ decIn.gpus[1].TotalMB = 2 /\ decOut.d.gpus[1].TotalMB = 1
    /\ decIn.gpus[2].FreeMB = 2 /\ decIn.gpus[2].TotalMB = 1 /\ decOut.d.gpus[2].FreeMB = 1

Unrecognized(p) == FitPolicy(p) \notin {PolicySpill, PolicyEvict, PolicyCpuMoe}

\* C36: a ScheduleProcess call on a candidate whose fit policy is none of
\* spill, evict_to_fit, cpu_moe returns OK unless host RAM admission rejects
\* it; when it returns OK no inventory was read, no process changed state and
\* no assignedGPU or runtimeEnv changed, the candidate's included.
C36_UnsetPolicyOnlyHostRam ==
    [][\A p \in Procs :
          ret'.proc = p /\ Unrecognized(p) =>
              /\ ret'.res = IF HostRamExceeded(p) THEN ErrInsufficientHostRAM ELSE ErrNone
              /\ ret'.res = ErrNone =>
                     /\ ret'.d.gpus = <<>>
                     /\ state' = state
                     /\ assignedGPU' = assignedGPU /\ runtimeEnv' = runtimeEnv]_vars

\* A candidate with the default policy was admitted under a host RAM cap.
C36_Witness ==
    /\ ret.proc # NoProc /\ Unrecognized(ret.proc)
    /\ ret.res = ErrNone
    /\ cfg.hostRamCapMB > 0 /\ MeasuredCpuMB(ret.proc) > 0

-----------------------------------------------------------------------------
(* ObserveLog on lines without a measurement; what ObserveLog can undo *)

\* The line is empty or blank, or no pattern finds a size above 0 in it.
NoMeasurement(line) == line.kind = "none" \/ (line.kind = "llama" /\ line.vram = 0 /\ line.cpu = 0)

\* C37: an ObserveLog call on a line without a recognizable measurement
\* returns matched = false with the zero footprint and leaves every entry of
\* the tracker as it was, absent ones included.
C37_UnmatchedLeavesTracker ==
    [][\A w \in Callers :
          obs[w].pc = "call" /\ obs'[w].pc # "call" /\ NoMeasurement(obs[w].line) =>
              /\ obs'[w].pc = "done"
              /\ ~obs'[w].matched /\ obs'[w].footprint = NoFootprint
              /\ tracked' = tracked]_vars

\* A call on a blank line has returned while its signature has an entry, and
\* another one while its signature has none.
C37_Witness ==
    \E w, u \in Callers :
        /\ obs[w].pc = "done" /\ obs[w].line.kind = "none" /\ ~obs[w].matched
        /\ tracked[obs[w].signature].ok /\ tracked[obs[w].signature].fp.VramMB > 0
        /\ obs[u].pc = "done" /\ NoMeasurement(obs[u].line) /\ ~obs[u].matched
        /\ ~tracked[obs[u].signature].ok

\* C38: an ObserveLog call leaves a field of an entry that is not 0 different
\* from 0, writes only footprints with a field that is not 0, and changes
\* no entry but the one of its signature.
C38_KnownStaysKnown ==
    [][\A s \in Sigs :
          /\ tracked[s].fp.VramMB > 0 => tracked'[s].fp.VramMB > 0
          /\ tracked[s].fp.CpuMB > 0 => tracked'[s].fp.CpuMB > 0
          /\ tracked'[s] # tracked[s] =>
                 /\ tracked'[s].fp.VramMB > 0 \/ tracked'[s].fp.CpuMB > 0
                 /\ \E w \in Callers : obs[w].pc = "set" /\ obs[w].signature = s]_vars

-----------------------------------------------------------------------------
(* ProcessGroup.StopProcesses (SpecLocks) *)

StopAllReturns(t) == Thread(t).op = "stopAll" /\ Thread(t).pc = "drain" /\ Thread(t)'.pc = "idle"

\* C39: when StopProcesses(StopImmediately) returns, no member of the group
\* is Ready, Starting or Stopping; when StopProcesses with the graceful
\* strategy returns, every member that was Ready is Stopped.
C39_StopProcessesStopsAll ==
    [][\A t \in Threads :
          StopAllReturns(t) =>
              IF Thread(t).strategy = "StopImmediately"
              THEN \A m \in Members(Thread(t).group) :
                      locks'.state[m] \notin {StateReady, StateStarting, StateStopping}
              ELSE \A m \in Thread(t).plan : locks'.state[m] = StateStopped]_vars

-----------------------------------------------------------------------------
(* SpecHub: WSHub.Run, its clients' pumps and a caller of Broadcast.  The   *)
(* channels register and unregister are unbuffered: a send on them ends    *)
(* when Run receives in its select.                                        *)

HubFrame == UNCHANGED <<cfg, footprints, procVars, schedVars, evIn, evOut, decIn, decOut,
                        tracked, obs, mgIn, mgOut, life, startCalls, swap, locks>>

\* HandleWebSocket: the client is made and sends itself on h.register.
WsConnect(c) ==
    /\ hub.client[c].pc = "new"
    /\ hub' = [hub EXCEPT !.client[c].pc = "registering"]
    /\ HubFrame

\* Run, case client := <-h.register
HubRegister(c) ==
    /\ hub.pc = "select"
    /\ hub.client[c].pc = "registering"
    /\ hub' = [hub EXCEPT !.clients = @ \cup {c}, !.client[c].pc = "open"]
    /\ HubFrame

\* readPump: a subscribe message.
WsSubscribe(c) ==
    /\ hub.client[c].pc = "open"
    /\ ~hub.client[c].subscribed
    /\ hub' = [hub EXCEPT !.client[c].subscribed = TRUE]
    /\ HubFrame

\* writePump takes a message from c.send.
WsWrite(c) ==
    /\ hub.client[c].pc \in {"open", "unregistering"}
    /\ hub.client[c].send > 0
    /\ hub' = [hub EXCEPT !.client[c].send = @ - 1]
    /\ HubFrame

\* readPump ends (read error or close): the deferred c.hub.unregister <- c.
WsReadEnd(c) ==
    /\ hub.client[c].pc = "open"
    /\ hub' = [hub EXCEPT !.client[c].pc = "unregistering"]
    /\ HubFrame

\* Run, case client := <-h.unregister
HubUnregister(c) ==
    /\ hub.pc = "select"
    /\ hub.client[c].pc = "unregistering"
    /\ hub' = [hub EXCEPT !.clients = @ \ {c},
                          !.client[c].closed = @ \/ c \in hub.clients,
                          !.client[c].pc = "gone"]
    /\ HubFrame

\* A caller enters Broadcast.
BroadcastCall ==
    /\ hub.caller = "idle"
    /\ hub' = [hub EXCEPT !.caller = "broadcast"]
    /\ HubFrame

\* Broadcast: select { case h.broadcast <- message: default: drop }
BroadcastSend ==
    /\ hub.caller = "broadcast"
    /\ hub' = [hub EXCEPT !.broadcast = IF @ < QueueCap THEN @ + 1 ELSE @,
                          !.dropped = (hub.broadcast >= QueueCap),
                          !.caller = "idle"]
    /\ HubFrame

\* Run, case message := <-h.broadcast: the range over h.clients begins.
HubTakeBroadcast ==
    /\ hub.pc = "select"
    /\ hub.broadcast > 0
    /\ hub' = [hub EXCEPT !.broadcast = @ - 1, !.pc = "range", !.range = hub.clients]
    /\ HubFrame

\* One client of the range: skipped if not subscribed; else the message
\* goes into c.send, or, the buffer being full, Run sends the client on
\* h.unregister.
HubDeliver(c) ==
    /\ hub.pc = "range"
    /\ c \in hub.range
    /\ hub' = IF ~hub.client[c].subscribed
              THEN [hub EXCEPT !.range = @ \ {c}]
              ELSE IF hub.client[c].send < SendCap
              THEN [hub EXCEPT !.range = @ \ {c}, !.client[c].send = @ + 1]
              ELSE [hub EXCEPT !.range = @ \ {c}, !.pc = "unregister", !.full = c]
    /\ HubFrame

\* The range is over; Run is back in its select.
HubRangeDone ==
    /\ hub.pc = "range"
    /\ hub.range = {}
    /\ hub' = [hub EXCEPT !.pc = "select"]
    /\ HubFrame

HubStep ==
    \/ \E c \in WSClients : HubRegister(c)
    \/ \E c \in WSClients : HubUnregister(c)
    \/ HubTakeBroadcast
    \/ \E c \in WSClients : HubDeliver(c)
    \/ HubRangeDone

InitHub ==
    /\ cfg = BaseConfig
    /\ QuietInit
    /\ evIn = NoEvIn /\ evOut = NoEvOut /\ decIn = NoDecIn /\ decOut = NoDecOut
    /\ QuietTracker
    /\ QuietLife

NextHub ==
    \/ \E c \in WSClients : WsConnect(c)
    \/ \E c \in WSClients : HubRegister(c)
    \/ \E c \in WSClients : WsSubscribe(c)
    \/ \E c \in WSClients : WsWrite(c)
    \/ \E c \in WSClients : WsReadEnd(c)
    \/ \E c \in WSClients : HubUnregister(c)
    \/ BroadcastCall
    \/ BroadcastSend
    \/ HubTakeBroadcast
    \/ \E c \in WSClients : HubDeliver(c)
    \/ HubRangeDone

SpecHub == InitHub /\ [][NextHub]_vars

\* The goroutine of Run and the caller of Broadcast are scheduled; nothing
\* is assumed of the clients.
SpecHubFair == SpecHub /\ WF_vars(HubStep) /\ WF_vars(BroadcastSend)

-----------------------------------------------------------------------------
(* The WebSocket hub (SpecHubFair) *)

\* C40: Run always comes back to its select; a client whose send buffer was
\* found full is removed from the clients with its send channel closed; a
\* call of Broadcast returns.
C40_HubNeverBlocks ==
    /\ (hub.pc # "select") ~> (hub.pc = "select")
    /\ \A c \in WSClients :
          (hub.full = c) ~> (c \notin hub.clients /\ hub.client[c].closed)
    /\ (hub.caller = "broadcast") ~> (hub.caller = "idle")

====
